---- MODULE Spec2Model ----
(***************************************************************************)
(* fritz-mon: the polling scheduler and lifecycle of server.go and the     *)
(* session handshake of the fritzbox client, as one state machine.         *)
(*                                                                         *)
(* Goroutines: main (Server.Run), the HTTP serving goroutine, the signal   *)
(* listener, the two polling loops (device, network) and the feeder        *)
(* goroutine newTicker starts for each loop.  The router is the            *)
(* environment: it answers the login endpoint and the two data endpoints,  *)
(* and any request may fail in transport (which is also how a request      *)
(* aborted by context cancellation or by a timeout ends).                  *)
(***************************************************************************)
EXTENDS Integers, FiniteSets, Sequences, TLC

\* ------------------------------------------------------------------ bounds
\* Number of session ids the router can issue in one run.
MaxSessions == 2
\* Number of termination signals the operating system delivers in one run.
MaxSignals == 1
\* Number of distinct challenges the router rotates through.
NumChallenges == 2

\* The poll intervals that are enumerated: -1 .. MaxInterval.
MaxInterval == 1

\* --------------------------------------------------------------- constants
\* const zeroSessionID = "0000000000000000": the router's "no session" id.
zeroSessionID == 0
\* The empty string "" as a session id (the zero value of Session.SID).
EmptySID == -1
\* A request that carries no sid parameter at all.
NoSid == -2
\* wg.Add(2) in CollectMetrics.
WaitGroupSize == 2
\* make(chan time.Time, 1): the capacity of a loop's tick channel.
TickChanCap == 1

Tasks == {"device", "network"}

Intervals == -1..MaxInterval

\* The intervals a loop can be started with: Config.Validate turns down the
\* interval 0 and no other.
LoopIntervals == Intervals \ {0}

\* newTicker: time.NewTicker(interval) panics for an interval that is not
\* positive, in the feeder goroutine, which ends the process.
NewTickerPanics(interval) == interval <= 0
Tokens == 1..MaxSessions
Challenges == 1..NumChallenges
NoChallenge == 0
RouterPassword == "secret"
WrongPassword == "wrong"
Free == "free"

VARIABLES
    main,            \* position of Server.Run
    wg,              \* the sync.WaitGroup counter of CollectMetrics
    ctxDone,         \* the shared context has been cancelled
    cancelInPoll,    \* history: a poll was in flight when cancellation fired
    pc,              \* position of each polling loop
    tickCh,          \* number of ticks buffered in each loop's tick channel
    feeder,          \* position of each newTicker feeder goroutine
    inflight,        \* number of polls of each family that are in flight
    pollResult,      \* result of the last poll of each family
    mu,              \* Client.mu: "free" or the task holding it
    session,         \* Client.session (the cached Session)
    req,             \* the HTTP request each task has in flight
    loginReqs,       \* login-endpoint requests sent by each task's last login call
    loginResult,     \* result of each task's last login call
    routerValid,     \* sids the router currently accepts
    routerChallenge, \* the challenge the router issued last
    nextSid,         \* the next sid the router will issue
    password,        \* Client.Password (from the configuration)
    httpPc,          \* position of the HTTP serving goroutine
    serverErr,       \* Run's serverErr variable is non-nil
    shutdownCalled,  \* httpServer.Shutdown has been called
    shutdownErr,     \* httpServer.Shutdown returned an error
    runResult,       \* what Run returned: "none" (not yet), "nil", "err"
    sigPc,           \* position of the signal listener goroutine
    signals,         \* termination signals delivered to the process so far
    closeErr,        \* result of FritzBox.Close: "none" (not yet), "nil", "err"
    logoutReq,       \* sid of the logout request in flight, or EmptySID
    gauges,          \* the published observations: value of each gauge, or Unset
    arg,             \* input of the function that is run on its own
    ret              \* what that function returned

vars == <<main, wg, ctxDone, cancelInPoll, pc, tickCh, feeder,
          inflight, pollResult, mu, session, req, loginReqs, loginResult,
          routerValid, routerChallenge, nextSid, password, httpPc,
          serverErr, shutdownCalled, shutdownErr, runResult, sigPc, signals,
          closeErr, logoutReq, gauges, arg, ret>>

schedVars == <<main, wg, pc, tickCh, feeder, inflight, pollResult>>
clientVars == <<mu, session, req, loginReqs, loginResult>>
routerVars == <<routerValid, routerChallenge, nextSid>>
\* The gauges and the functions run on their own: Run's specification does
\* not follow the values a poll publishes, so they stay NotFollowed there.
unitVars == <<gauges, arg, ret>>
NotFollowed == <<>>
httpVars == <<httpPc, serverErr, shutdownCalled, shutdownErr, runResult>>
sigVars == <<sigPc, signals>>
cancelVars == <<ctxDone, cancelInPoll>>
closeVars == <<closeErr, logoutReq>>

\* ----------------------------------------------------------------- helpers
NoResponse == [challenge |-> NoChallenge, hash |-> <<>>]
NoReq == [ep |-> "none", sid |-> NoSid, response |-> NoResponse, username |-> ""]
Username == "monitor"
EmptySession == [SID |-> EmptySID, Challenge |-> NoChallenge]

\* The process runs: no goroutine has panicked.
Alive == main # "crashed"

\* A goroutine panics and nothing recovers: the runtime ends the process
\* with all its goroutines, and nothing of its state remains.  The router
\* and the signals delivered so far are not part of the process.
Panic ==
    /\ main' = "crashed"
    /\ wg' = 0
    /\ ctxDone' = FALSE
    /\ cancelInPoll' = FALSE
    /\ pc' = [t \in Tasks |-> "none"]
    /\ tickCh' = [t \in Tasks |-> 0]
    /\ feeder' = [t \in Tasks |-> "none"]
    /\ inflight' = [t \in Tasks |-> 0]
    /\ pollResult' = [t \in Tasks |-> "none"]
    /\ mu' = Free
    /\ session' = EmptySession
    /\ req' = [t \in Tasks |-> NoReq]
    /\ loginReqs' = [t \in Tasks |-> 0]
    /\ loginResult' = [t \in Tasks |-> "none"]
    /\ httpPc' = "none"
    /\ serverErr' = FALSE
    /\ shutdownCalled' = FALSE
    /\ shutdownErr' = FALSE
    /\ runResult' = "none"
    /\ sigPc' = "none"
    /\ closeErr' = "none"
    /\ logoutReq' = EmptySID
    /\ UNCHANGED <<routerValid, routerChallenge, nextSid, signals, password,
                   gauges, arg, ret>>

PollPcs == {"getSession", "login", "login1", "login2", "data"}
LoginPcs == {"login", "login1", "login2"}

\* toUTF16andMD5: lowercase hex MD5 of the UTF-16LE encoding of its argument,
\* kept as an injective tag of the argument.
toUTF16andMD5(s) == <<"md5utf16le", s>>

\* Session.solveChallenge
solveChallengeWithoutPassword(s, pw) ==
    LET challengeAndPassword == <<s.Challenge, "-", "">>
    IN  [challenge |-> s.Challenge, hash |-> toUTF16andMD5(challengeAndPassword)]

solveChallenge(s, pw) ==
    LET challengeAndPassword == <<s.Challenge, "-", pw>>
    IN  [challenge |-> s.Challenge, hash |-> toUTF16andMD5(challengeAndPassword)]

\* The router's next challenge.
NextChallenge(c) == (c % NumChallenges) + 1

\* The router's reply to a login-endpoint request that presents a sid.
RouterCheckReply(sid) ==
    [SID |-> IF sid \in routerValid THEN sid ELSE zeroSessionID,
     Challenge |-> NextChallenge(routerChallenge)]

\* The router accepts a challenge response: it answers the challenge issued
\* last with the password of the account.
RouterAccepts(r) ==
    /\ r.response = solveChallenge([Challenge |-> routerChallenge], RouterPassword)
    /\ r.username = Username

\* The router's reply to a response-submission request.
RouterLoginReply(r) ==
    [SID |-> IF RouterAccepts(r) THEN nextSid ELSE zeroSessionID,
     Challenge |-> NextChallenge(routerChallenge)]

\* getXML(&c.session, ...): xml.Decoder.Decode writes the elements of the
\* reply into the fields of the cached Session.
\* An element the reply carries overwrites a string field, a field whose
\* element the reply omits keeps its value, and every <Name> and <Access>
\* element the reply carries is appended to the slice the field holds.
DecodePermissions(old, reply) ==
    [Names |-> old.Names \o reply.Names,
     AccessLevels |-> old.AccessLevels \o reply.AccessLevels]

DecodeSession(old, reply) ==
    [f \in DOMAIN old |->
        IF f \notin DOMAIN reply THEN old[f]
        ELSE IF f = "Rights" THEN DecodePermissions(old[f], reply[f])
        ELSE reply[f]]

\* ------------------------------------------------- raw strings and numbers
\* A raw attribute of the wire format is a string, modelled as the sequence
\* of its characters.  MaxRawLen bounds the strings that are enumerated.
MaxRawLen == 5

DigitChars == <<"0", "1", "2", "3", "4", "5", "6", "7", "8", "9">>

IsDigit(c) == \E i \in 1..10 : DigitChars[i] = c

DigitVal(c) == (CHOOSE i \in 1..10 : DigitChars[i] = c) - 1

RECURSIVE Pow2(_)
Pow2(n) == IF n = 0 THEN 1 ELSE 2 * Pow2(n - 1)

Abs(n) == IF n < 0 THEN -n ELSE n

\* ------------------------------------------------------ wide integers
\* An int64, a uint64 or the mantissa of a float64 does not fit the 32-bit
\* integers of TLC.  A natural number is kept as the sequence of its digits
\* in base 2^15, the least significant first and the last one not zero;
\* zero is the empty sequence.
LimbBits == 15

Base == Pow2(LimbBits)

\* n limbs that are 0.
Zeros(n) == IF n <= 0 THEN <<>> ELSE [i \in 1..n |-> 0]

\* The natural number n < 2^31.
RECURSIVE FromInt(_)
FromInt(n) == IF n = 0 THEN <<>> ELSE <<n % Base>> \o FromInt(n \div Base)

\* a without its leading limbs that are 0.
Trim(a) ==
    LET used == {i \in 1..Len(a) : a[i] # 0}
    IN  IF used = {} THEN <<>>
        ELSE SubSeq(a, 1, CHOOSE i \in used : \A j \in used : j <= i)

\* The limbs of a * k + c and the carry out of them.
RECURSIVE MulLimbs(_, _, _)
MulLimbs(a, k, c) ==
    IF a = <<>> THEN [d |-> <<>>, c |-> c]
    ELSE IF Len(a) = 1
         THEN LET t == a[1] * k + c
              IN  [d |-> <<t % Base>>, c |-> t \div Base]
    ELSE LET h == Len(a) \div 2
             lo == MulLimbs(SubSeq(a, 1, h), k, c)
             hi == MulLimbs(SubSeq(a, h + 1, Len(a)), k, lo.c)
         IN  [d |-> lo.d \o hi.d, c |-> hi.c]

\* The limbs x.d with the carry x.c on top.
Carried(x) == x.d \o FromInt(x.c)

\* a * k + c, for 0 < k <= Base and 0 <= c < Base
MulSmall(a, k, c) == Carried(MulLimbs(a, k, c))

\* The limbs of (r * Base^Len(a) + a) div d and the remainder, for r < d.
RECURSIVE DivLimbs(_, _, _)
DivLimbs(a, d, r) ==
    IF a = <<>> THEN [q |-> <<>>, r |-> r]
    ELSE IF Len(a) = 1
         THEN LET t == r * Base + a[1]
              IN  [q |-> <<t \div d>>, r |-> t % d]
    ELSE LET h == Len(a) \div 2
             hi == DivLimbs(SubSeq(a, h + 1, Len(a)), d, r)
             lo == DivLimbs(SubSeq(a, 1, h), d, hi.r)
         IN  IF hi.r = 0 /\ \A i \in 1..h : a[i] = 0
             THEN [q |-> Zeros(h) \o hi.q, r |-> 0]
             ELSE [q |-> lo.q \o hi.q, r |-> lo.r]

Trimmed(x) == [q |-> Trim(x.q), r |-> x.r]

\* a div d and a mod d, for 0 < d <= Base
DivSmall(a, d) == Trimmed(DivLimbs(a, d, 0))

RECURSIVE BitsOf(_)
BitsOf(n) == IF n = 0 THEN 0 ELSE 1 + BitsOf(n \div 2)

\* The number of binary digits of a.
BitLen(a) ==
    IF a = <<>> THEN 0 ELSE LimbBits * (Len(a) - 1) + BitsOf(a[Len(a)])

\* Binary digit number c of a.
BitAt(a, c) ==
    LET j == c \div LimbBits + 1
    IN  IF j > Len(a) THEN 0 ELSE (a[j] \div Pow2(c % LimbBits)) % 2

IsOdd(a) == a # <<>> /\ Head(a) % 2 = 1

\* a * 2^s
ShiftLeft(a, s) ==
    IF a = <<>> THEN <<>>
    ELSE Zeros(s \div LimbBits) \o MulSmall(a, Pow2(s % LimbBits), 0)

\* The quotient d.q, and whether d.r or a limb of low is not 0.
WithSticky(d, low) ==
    [q |-> d.q, sticky |-> d.r # 0 \/ \E i \in 1..Len(low) : low[i] # 0]

\* a div 2^r, and whether a binary digit 1 was dropped.
ShiftRight(a, r) ==
    IF r \div LimbBits >= Len(a) THEN WithSticky([q |-> <<>>, r |-> 0], a)
    ELSE WithSticky(DivSmall(SubSeq(a, r \div LimbBits + 1, Len(a)),
                             Pow2(r % LimbBits)),
                    SubSeq(a, 1, r \div LimbBits))

\* a + 1
RECURSIVE AddOne(_)
AddOne(a) ==
    IF a = <<>> THEN <<1>>
    ELSE IF Head(a) + 1 < Base THEN <<Head(a) + 1>> \o Tail(a)
    ELSE <<0>> \o AddOne(Tail(a))

\* a - 1, for a > 0
RECURSIVE SubOne(_)
SubOne(a) ==
    IF a = <<1>> THEN <<>>
    ELSE IF Head(a) > 0 THEN <<Head(a) - 1>> \o Tail(a)
    ELSE <<Base - 1>> \o SubOne(Tail(a))

\* The limbs of a + b + c and the carry out of them, for a and b of one
\* length.
RECURSIVE AddLimbs(_, _, _)
AddLimbs(a, b, c) ==
    IF a = <<>> THEN [d |-> <<>>, c |-> c]
    ELSE IF Len(a) = 1
         THEN LET t == a[1] + b[1] + c
              IN  [d |-> <<t % Base>>, c |-> t \div Base]
    ELSE LET h == Len(a) \div 2
             lo == AddLimbs(SubSeq(a, 1, h), SubSeq(b, 1, h), c)
             hi == AddLimbs(SubSeq(a, h + 1, Len(a)), SubSeq(b, h + 1, Len(b)), lo.c)
         IN  [d |-> lo.d \o hi.d, c |-> hi.c]

\* a + b
Add(a, b) ==
    Carried(AddLimbs(a \o Zeros(Len(b) - Len(a)), b \o Zeros(Len(a) - Len(b)), 0))

\* a > b
Greater(a, b) ==
    LET differ == {i \in 1..Len(a) : a[i] # b[i]}
    IN  IF Len(a) # Len(b) THEN Len(a) > Len(b)
        ELSE /\ differ # {}
             /\ \E i \in differ : a[i] > b[i] /\ \A j \in differ : j <= i

\* 10^p, for p <= 4
RECURSIVE Pow10(_)
Pow10(p) == IF p = 0 THEN 1 ELSE 10 * Pow10(p - 1)

\* n * 10^p
RECURSIVE MulPow10(_, _)
MulPow10(n, p) ==
    IF p <= 4 THEN MulSmall(n, Pow10(p), 0)
    ELSE LET half == MulPow10(n, p \div 2)
         IN  IF half = <<>> THEN <<>> ELSE MulPow10(half, p - p \div 2)

Dropped(d, inexact) == [q |-> d.q, inexact |-> inexact \/ d.r # 0]

\* n div 10^p, and whether a remainder was dropped.
RECURSIVE QuoPow10(_, _, _)
QuoPow10(n, p, inexact) ==
    IF p <= 4 THEN Dropped(DivSmall(n, Pow10(p)), inexact)
    ELSE LET half == QuoPow10(n, p \div 2, inexact)
         IN  IF half.inexact THEN QuoPow10(half.q, p - p \div 2, TRUE)
             ELSE QuoPow10(half.q, p - p \div 2, FALSE)

\* m = x * 2^j with x odd: x and e + j.
RECURSIVE OddPart(_, _)
OddPart(m, e) ==
    IF m = <<>> THEN [m |-> <<>>, e |-> 0]
    ELSE IF Head(m) = 0 THEN OddPart(Tail(m), e + LimbBits)
    ELSE IF Head(m) % 2 = 0 THEN OddPart(DivSmall(m, 2).q, e + 1)
    ELSE [m |-> m, e |-> e]

\* The least of a set of integers that is not empty.
Least(S) == CHOOSE x \in S : \A y \in S : x <= y

\* Number of digits in a row in s from position i on.
DigitRun(s, i) ==
    Least({j \in i..Len(s) : ~IsDigit(s[j])} \cup {Len(s) + 1}) - i

\* A string is the sequence of its bytes.  Bytes lists the 256 bytes in the
\* order of their codes, the order sort.Strings goes by: a
\* printable ASCII character other than the grave accent stands for itself,
\* any other byte is written with its code, "<C3>".
Bytes ==
    <<"<00>", "<01>", "<02>", "<03>", "<04>", "<05>", "<06>", "<07>",
      "<08>", "<09>", "<0A>", "<0B>", "<0C>", "<0D>", "<0E>", "<0F>",
      "<10>", "<11>", "<12>", "<13>", "<14>", "<15>", "<16>", "<17>",
      "<18>", "<19>", "<1A>", "<1B>", "<1C>", "<1D>", "<1E>", "<1F>", " ",
      "!", "\"", "#", "$", "%", "&", "'", "(", ")", "*", "+", ",", "-",
      ".", "/", "0", "1", "2", "3", "4", "5", "6", "7", "8", "9", ":", ";",
      "<", "=", ">", "?", "@", "A", "B", "C", "D", "E", "F", "G", "H", "I",
      "J", "K", "L", "M", "N", "O", "P", "Q", "R", "S", "T", "U", "V", "W",
      "X", "Y", "Z", "[", "\\", "]", "^", "_", "<60>", "a", "b", "c", "d",
      "e", "f", "g", "h", "i", "j", "k", "l", "m", "n", "o", "p", "q", "r",
      "s", "t", "u", "v", "w", "x", "y", "z", "{", "|", "}", "~", "<7F>",
      "<80>", "<81>", "<82>", "<83>", "<84>", "<85>", "<86>", "<87>",
      "<88>", "<89>", "<8A>", "<8B>", "<8C>", "<8D>", "<8E>", "<8F>",
      "<90>", "<91>", "<92>", "<93>", "<94>", "<95>", "<96>", "<97>",
      "<98>", "<99>", "<9A>", "<9B>", "<9C>", "<9D>", "<9E>", "<9F>",
      "<A0>", "<A1>", "<A2>", "<A3>", "<A4>", "<A5>", "<A6>", "<A7>",
      "<A8>", "<A9>", "<AA>", "<AB>", "<AC>", "<AD>", "<AE>", "<AF>",
      "<B0>", "<B1>", "<B2>", "<B3>", "<B4>", "<B5>", "<B6>", "<B7>",
      "<B8>", "<B9>", "<BA>", "<BB>", "<BC>", "<BD>", "<BE>", "<BF>",
      "<C0>", "<C1>", "<C2>", "<C3>", "<C4>", "<C5>", "<C6>", "<C7>",
      "<C8>", "<C9>", "<CA>", "<CB>", "<CC>", "<CD>", "<CE>", "<CF>",
      "<D0>", "<D1>", "<D2>", "<D3>", "<D4>", "<D5>", "<D6>", "<D7>",
      "<D8>", "<D9>", "<DA>", "<DB>", "<DC>", "<DD>", "<DE>", "<DF>",
      "<E0>", "<E1>", "<E2>", "<E3>", "<E4>", "<E5>", "<E6>", "<E7>",
      "<E8>", "<E9>", "<EA>", "<EB>", "<EC>", "<ED>", "<EE>", "<EF>",
      "<F0>", "<F1>", "<F2>", "<F3>", "<F4>", "<F5>", "<F6>", "<F7>",
      "<F8>", "<F9>", "<FA>", "<FB>", "<FC>", "<FD>", "<FE>", "<FF>">>

\* The place of each byte in Bytes: its code plus one.
Places ==
    [c \in {Bytes[i] : i \in 1..Len(Bytes)} |->
        CHOOSE i \in 1..Len(Bytes) : Bytes[i] = c]

ByteOf(c) == Places[c]

\* lower(c) of strconv: c | ('x' - 'X'), the byte with the bit 32 set.  It
\* turns an upper-case letter into the lower-case one, leaves a lower-case
\* letter alone, and gives a letter for no other byte.
Lower(c) ==
    IF ((ByteOf(c) - 1) \div 32) % 2 = 1 THEN c ELSE Bytes[ByteOf(c) + 32]

Folded(s) == [i \in 1..Len(s) |-> Lower(s[i])]

HexLetters == <<"a", "b", "c", "d", "e", "f">>

IsHexLetter(c) == \E i \in 1..6 : HexLetters[i] = c

HexLetterVal(c) == 9 + (CHOOSE i \in 1..6 : HexLetters[i] = c)

\* The values of the digits of a string of decimal or hexadecimal digits.
DigitVals(digits) ==
    IF digits = <<>> THEN <<>>
    ELSE [j \in 1..Len(digits) |->
             IF IsDigit(digits[j]) THEN DigitVal(digits[j])
             ELSE HexLetterVal(Lower(digits[j]))]

\* hi * base^k + lo, for the bases 10 and 16
Joined(hi, lo, base, k) ==
    IF hi = <<>> THEN lo
    ELSE Add(IF base = 16 THEN ShiftLeft(hi, 4 * k) ELSE MulPow10(hi, k), lo)

\* The number written in the base by the digits ds, the first one the most
\* significant.
RECURSIVE NatOf(_, _)
NatOf(ds, base) ==
    IF Len(ds) <= 1 THEN FromInt(IF ds = <<>> THEN 0 ELSE ds[1])
    ELSE Joined(NatOf(SubSeq(ds, 1, Len(ds) \div 2), base),
                NatOf(SubSeq(ds, Len(ds) \div 2 + 1, Len(ds)), base),
                base, Len(ds) - Len(ds) \div 2)

SignLen(s, i) == IF i <= Len(s) /\ s[i] \in {"+", "-"} THEN 1 ELSE 0

SignOf(s, i) == IF i <= Len(s) /\ s[i] = "-" THEN -1 ELSE 1

\* An int64: its sign s (1 or -1, 1 for zero) and its magnitude.
Int64(sign, mag) == [s |-> IF mag = <<>> THEN 1 ELSE sign, mag |-> mag]

\* 1<<64 - 1, the largest uint64.
MaxUint64 == SubOne(ShiftLeft(<<1>>, 64))

\* The largest magnitude of an int64 of the given sign: 1<<63 - 1, or 1<<63.
Int64Limit(sign) ==
    IF sign < 0 THEN ShiftLeft(<<1>>, 63) ELSE SubOne(ShiftLeft(<<1>>, 63))

\* strconv.ParseUint on the digits of s from position i on, n of them in
\* a row with the value v: the digits are read from the left, the first
\* character that is no digit is a syntax error, and digits that do not fit
\* a uint64 are a range error with the largest uint64 as soon as they are
\* read, whatever follows them.
UintOf(s, i, n, v) ==
    IF n = 0 THEN [val |-> <<>>, err |-> "syntax"]
    ELSE IF Greater(v, MaxUint64) THEN [val |-> MaxUint64, err |-> "range"]
    ELSE IF i + n # Len(s) + 1 THEN [val |-> <<>>, err |-> "syntax"]
    ELSE [val |-> v, err |-> "nil"]

DigitsOf(s, i, n) ==
    UintOf(s, i, n, NatOf(DigitVals(SubSeq(s, i, i + n - 1)), 10))

ParseUint(s, i) == DigitsOf(s, i, DigitRun(s, i))

\* strconv.ParseInt after ParseUint: a syntax error gives 0, a number out
\* of the int64 range (a range error of ParseUint included) the nearest
\* int64.
IntOf(sign, un) ==
    IF un.err = "syntax" THEN [val |-> Int64(1, <<>>), err |-> TRUE]
    ELSE IF Greater(un.val, Int64Limit(sign))
         THEN [val |-> Int64(sign, Int64Limit(sign)), err |-> TRUE]
    ELSE [val |-> Int64(sign, un.val), err |-> FALSE]

\* strconv.ParseInt(s, 10, 64): an optional sign and at least one digit,
\* nothing else.  err is TRUE for a syntax error and for a range error.
ParseInt(s) == IntOf(SignOf(s, 1), ParseUint(s, 1 + SignLen(s, 1)))

\* ------------------------------------------------------------- float64
\* A float64 that is a number is s * m * 2^e: s is its sign (1 or -1), m
\* its mantissa as an odd natural number below 2^53 and e the exponent,
\* -1074 or more; zero of either sign has m = 0 and e = 0.  The other
\* values are the two infinities and NaN.
Zero == [k |-> "num", s |-> 1, m |-> <<>>, e |-> 0]

SignedZero(sign) == [Zero EXCEPT !.s = sign]

Inf(sign) == [k |-> "inf", s |-> sign, m |-> <<>>, e |-> 0]

NaN == [k |-> "nan", s |-> 1, m |-> <<>>, e |-> 0]

\* The float64 sign * m * 2^ulp for m of at most 53 binary digits, an
\* infinity from 2^1024 on.
Number(sign, x) == [k |-> "num", s |-> sign, m |-> x.m, e |-> x.e]

Packed(sign, m, ulp) ==
    IF BitLen(m) + ulp > 1024 THEN Inf(sign) ELSE Number(sign, OddPart(m, ulp))

\* q.q + q.r / 2, with more below it if sticky, rounded to the nearest
\* integer, a tie to the even one.
HalfUp(q, sticky) ==
    IF q.r = 1 /\ (sticky \/ IsOdd(q.q)) THEN AddOne(q.q) ELSE q.q

Nearest(cut, inexact) == HalfUp(DivSmall(cut.q, 2), cut.sticky \/ inexact)

\* The exponent of the last binary digit a float64 keeps of a number
\* below 2^top: 53 digits, and nothing below 2^-1074.
Ulp(top) == IF top - 53 > -1074 THEN top - 53 ELSE -1074

RoundAt(sign, n, inexact, e, ulp) ==
    Packed(sign,
           IF ulp <= e THEN ShiftLeft(n, e - ulp)
           ELSE Nearest(ShiftRight(n, ulp - e - 1), inexact),
           ulp)

\* The float64 nearest to sign * (n + x) * 2^e, where 0 <= x < 1 and
\* inexact tells that x > 0 (n then has 55 binary digits or more): the
\* mantissa keeps 53 binary digits, fewer below 2^-1022 where the step stays
\* 2^-1074, and is rounded to the nearest, a tie to the even one; from
\* 2^1024 on the result is an infinity.
Round(sign, n, inexact, e) ==
    IF n = <<>> THEN SignedZero(sign)
    ELSE RoundAt(sign, n, inexact, e, Ulp(BitLen(n) + e))

RoundQuo(sign, d, e) == Round(sign, d.q, d.inexact, e)

\* n * 2^(LimbBits * k) / 10^p, rounded.
Scaled(sign, n, e, p, k) ==
    RoundQuo(sign, QuoPow10(Zeros(k) \o n, p, FALSE), e - LimbBits * k)

\* The float64 nearest to sign * n * 2^e / 10^p: the quotient is taken of
\* n shifted far enough to the left to leave 55 binary digits and more.
Quotient(sign, n, e, p) ==
    IF n = <<>> THEN SignedZero(sign)
    ELSE Scaled(sign, n, e, p, (64 + 4 * p) \div LimbBits + 1)

\* The float64 nearest to sign * n * 10^e, as strconv.ParseFloat returns
\* it for decimal digits.  n has at most BitLen(n) \div 3 + 1 decimal
\* digits: a number of 10^309 or more is an infinity and one below 10^-330
\* is zero without the arithmetic.
Float64(sign, n, e) ==
    IF n = <<>> THEN SignedZero(sign)
    ELSE IF e >= 309 THEN Inf(sign)
    ELSE IF BitLen(n) \div 3 + 1 + e <= -330 THEN SignedZero(sign)
    ELSE IF e >= 0 THEN Round(sign, MulPow10(n, e), FALSE, 0)
    ELSE Quotient(sign, n, 0, -e)

\* special of strconv: "inf" and "infinity" with an optional sign, "nan"
\* without one, in any case of the letters.
Special(s) ==
    LET i == 1 + SignLen(s, 1)
        rest == Folded(SubSeq(s, i, Len(s)))
    IN  IF rest \in {<<"i", "n", "f">>, <<"i", "n", "f", "i", "n", "i", "t", "y">>}
        THEN [ok |-> TRUE, val |-> Inf(SignOf(s, 1))]
        ELSE IF Folded(s) = <<"n", "a", "n">> THEN [ok |-> TRUE, val |-> NaN]
        ELSE [ok |-> FALSE, val |-> Zero]

\* readFloat, a character of the mantissa: a digit of the base, an
\* underscore or a point.
MantissaChar(c, base) ==
    \/ c \in {"_", "."}
    \/ IsDigit(c)
    \/ base = 16 /\ IsHexLetter(Lower(c))

IsMantissaDigit(c) == c \notin {"_", "."}

\* The first position from i on that readFloat does not read as mantissa:
\* a character that is none of the mantissa, or a second point.
MantissaEnd(s, i, base) ==
    Least({j \in i..Len(s) :
              \/ ~MantissaChar(s[j], base)
              \/ s[j] = "." /\ \E h \in i..(j - 1) : s[h] = "."}
          \cup {Len(s) + 1})

\* What readFloat has of the mantissa part and of its digits.
MantissaOf(part, digits, base, end) ==
    LET dots == {j \in 1..Len(part) : part[j] = "."}
    IN  [m |-> NatOf(DigitVals(digits), base),
         nd |-> Len(digits),
         frac |-> Cardinality({j \in 1..Len(part) :
                                  /\ IsMantissaDigit(part[j])
                                  /\ \E h \in dots : h < j}),
         dot |-> dots # {},
         us |-> \E j \in 1..Len(part) : part[j] = "_",
         end |-> end]

MantissaPart(part, base, end) ==
    MantissaOf(part, SelectSeq(part, IsMantissaDigit), base, end)

MantissaTo(s, i, base, end) == MantissaPart(SubSeq(s, i, end - 1), base, end)

\* readFloat, the mantissa: digits of the base with underscores and at most
\* one point among them, from position i on.  m is the number the digits
\* write, nd their count, frac the count of those after the point, us tells
\* whether an underscore was seen, and end is the first position not read.
ScanMantissa(s, i, base) == MantissaTo(s, i, base, MantissaEnd(s, i, base))

\* readFloat, the digits of the exponent, with underscores; the exponent
\* stops growing at 10000.
RECURSIVE ScanExponent(_, _, _)
ScanExponent(s, i, st) ==
    IF i > Len(s) THEN [st EXCEPT !.end = i]
    ELSE IF s[i] = "_" THEN ScanExponent(s, i + 1, [st EXCEPT !.us = TRUE])
    ELSE IF IsDigit(s[i])
         THEN ScanExponent(s, i + 1,
                  [st EXCEPT !.e = IF st.e < 10000 THEN st.e * 10 + DigitVal(s[i])
                                   ELSE st.e])
    ELSE [st EXCEPT !.end = i]

\* underscoreOK: an underscore stands between two digits, or between the
\* base prefix and a digit.  saw is "0" after a digit, "_" after an
\* underscore, "!" after anything else and "^" at the start.
RECURSIVE UnderscoresFrom(_, _, _, _)
UnderscoresFrom(s, i, hex, saw) ==
    IF i > Len(s) THEN saw # "_"
    ELSE LET c == s[i]
         IN  IF IsDigit(c) \/ (hex /\ IsHexLetter(Lower(c)))
             THEN UnderscoresFrom(s, i + 1, hex, "0")
             ELSE IF c = "_"
                  THEN saw = "0" /\ UnderscoresFrom(s, i + 1, hex, "_")
             ELSE saw # "_" /\ UnderscoresFrom(s, i + 1, hex, "!")

HasBasePrefix(s, i) ==
    i + 1 <= Len(s) /\ s[i] = "0" /\ Lower(s[i + 1]) \in {"b", "o", "x"}

underscoreOK(s) ==
    LET i == 1 + SignLen(s, 1)
    IN  IF HasBasePrefix(s, i)
        THEN UnderscoresFrom(s, i + 2, Lower(s[i + 1]) = "x", "0")
        ELSE UnderscoresFrom(s, i, FALSE, "^")

\* A float64 that is read, with strconv.ErrRange for an infinity.
Ranged(f) == [val |-> f, err |-> f.k = "inf"]

\* strconv.ParseFloat(s, 64).  A special value, or: an optional sign, an
\* optional 0x, digits with at most one point among them (at least one
\* digit), and an exponent ('e' for decimal digits, optional; 'p' for
\* hexadecimal digits, required, a power of two) with an optional sign and
\* at least one digit.  A string of this form whose value is too large
\* gives an infinity AND an error (strconv.ErrRange); any other string gives
\* 0 and an error.
ParseFloat(s) ==
    LET i == 1 + SignLen(s, 1)
        hex == i + 2 <= Len(s) /\ s[i] = "0" /\ Lower(s[i + 1]) = "x"
        base == IF hex THEN 16 ELSE 10
        mt == ScanMantissa(s, IF hex THEN i + 2 ELSE i, base)
        j == mt.end
        hasExp == j <= Len(s) /\ Lower(s[j]) = (IF hex THEN "p" ELSE "e")
        es == SignLen(s, j + 1)
        expDigit == j + 1 + es <= Len(s) /\ IsDigit(s[j + 1 + es])
        ex == IF hasExp /\ expDigit
              THEN ScanExponent(s, j + 1 + es, [e |-> 0, us |-> FALSE, end |-> 0])
              ELSE [e |-> 0, us |-> FALSE, end |-> j]
        end == ex.end
        ok == /\ mt.nd > 0
              /\ hasExp => expDigit
              /\ hex => hasExp
              /\ (mt.us \/ ex.us) => underscoreOK(s)
              /\ end = Len(s) + 1
        exp == IF hasExp THEN SignOf(s, j + 1) * ex.e ELSE 0
    IN  IF Special(s).ok THEN [val |-> Special(s).val, err |-> FALSE]
        ELSE IF ok
             THEN Ranged(IF hex
                         THEN Round(SignOf(s, 1), mt.m, FALSE, exp - 4 * mt.frac)
                         ELSE Float64(SignOf(s, 1), mt.m, exp - mt.frac))
        ELSE [val |-> Zero, err |-> TRUE]

\* f / d for d a power of ten (10^p): the quotient of the float64 f,
\* rounded to a float64 again.
DivPow10(f, p) == IF f.k \in {"inf", "nan"} THEN f ELSE Quotient(f.s, f.m, f.e, p)

\* PowerInfo.GetVoltage, GetPower, GetEnergy and TemperatureInfo.GetCelsius:
\* f, _ := strconv.ParseFloat(raw, 64), the error is dropped.
GetVoltage(raw) == DivPow10(ParseFloat(raw).val, 3)

GetPower(raw) == DivPow10(ParseFloat(raw).val, 3)

GetEnergy(raw) == ParseFloat(raw).val

GetCelsius(raw) == DivPow10(ParseFloat(raw).val, 1)


\* --------------------------------------------------------------- gauges
\* A gauge never set: a child of a GaugeVec that does not exist yet.
Unset == [k |-> "unset", s |-> 1, m |-> <<>>, e |-> 0]

\* float64(n) of an integer n
FloatOf(n) == Round(IF n < 0 THEN -1 ELSE 1, FromInt(Abs(n)), FALSE, 0)

\* f * 8, rounded to a float64
Mul8(f) == IF f.k \in {"inf", "nan"} THEN f ELSE Round(f.s, f.m, FALSE, f.e + 3)

DeviceNames == {"plug", "sensor"}

DeviceGauges == {"IsConnected", "IsPoweredOn", "Temperature", "Power", "Voltage", "Energy"}

\* The eight series of TrafficMonitoringData, in the order in which
\* NetworkMetrics.FetchFrom publishes them.
NetworkSeries ==
    <<"DownstreamInternet", "DownStreamMedia", "DownStreamGuest",
      "UpstreamRealtime", "UpstreamHighPriority", "UpstreamDefaultPriority",
      "UpstreamLowPriority", "UpstreamGuest">>

SeriesNames == {NetworkSeries[i] : i \in 1..8}

\* A device gauge is <<gauge, device name>>, a network gauge <<"network", series>>.
GaugeKeys == (DeviceGauges \X DeviceNames) \cup ({"network"} \X SeriesNames)

\* NewMetrics: a plain prometheus.Gauge starts at 0, a GaugeVec has no child.
NewGauges == [key \in GaugeKeys |-> IF key[1] = "network" THEN Zero ELSE Unset]

\* ------------------------------------------------------------ capabilities
PowerSensor == 7
TemperatureSensor == 8
StateSwitch == 9

\* 1 << uint(c)
RECURSIVE Shl1(_)
Shl1(c) == IF c = 0 THEN 1 ELSE 2 * Shl1(c - 1)

\* bitMask & mask for a mask of one bit, in two's complement: a negative
\* number -n has the binary digits of n - 1, each inverted.
BitAnd(bitMask, mask) ==
    LET c == BitsOf(mask) - 1
        set == IF bitMask.s < 0 THEN BitAt(SubOne(bitMask.mag), c) = 0
               ELSE BitAt(bitMask.mag, c) = 1
    IN  IF set THEN mask ELSE 0

\* bitMasked.hasMask: a bitmask that is not an integer has no bit.
hasMask(Functionbitmask, mask) ==
    LET p == ParseInt(Functionbitmask)
    IN  IF p.err THEN FALSE ELSE BitAnd(p.val, mask) # 0

\* Device.Has: all of the capabilities cs.
HasAny(CapabilitiesBitmap, cs) ==
    \E c \in cs : hasMask(CapabilitiesBitmap, Shl1(c))

Has(CapabilitiesBitmap, cs) ==
    \A c \in cs : hasMask(CapabilitiesBitmap, Shl1(c))

CanMeasurePower(d) == Has(d.CapabilitiesBitmap, {PowerSensor})

CanMeasureTemperatureByPower(d) == Has(d.CapabilitiesBitmap, {PowerSensor})

CanMeasureTemperature(d) == Has(d.CapabilitiesBitmap, {TemperatureSensor})

IsSwitch(d) == Has(d.CapabilitiesBitmap, {StateSwitch})

\* SwitchInfo.IsPoweredOn and prometheusBool
IsPoweredOn(State) == State = <<"1">>

prometheusBool(value) == IF value THEN FloatOf(1) ELSE FloatOf(0)

\* DeviceMetrics.collectDeviceMetrics: the gauges after the observations of
\* device d have been published under its name.
collectDeviceMetrics(g, d) ==
    [key \in GaugeKeys |->
        IF key[1] = "network" \/ key[2] # d.Name THEN g[key]
        ELSE IF key[1] = "IsConnected" THEN FloatOf(d.Present)
        ELSE IF key[1] = "Temperature" /\ CanMeasureTemperature(d)
             THEN GetCelsius(d.Celsius)
        ELSE IF key[1] = "Voltage" /\ CanMeasurePower(d) THEN GetVoltage(d.Voltage)
        ELSE IF key[1] = "Power" /\ CanMeasurePower(d) THEN GetPower(d.Power)
        ELSE IF key[1] = "Energy" /\ CanMeasurePower(d) THEN GetEnergy(d.Energy)
        ELSE IF key[1] = "IsPoweredOn" /\ IsSwitch(d)
             THEN prometheusBool(IsPoweredOn(d.State))
        ELSE g[key]]

\* for _, device := range devices { m.collectDeviceMetrics(device) }
RECURSIVE CollectAll(_, _, _)
CollectAll(g, devices, i) ==
    IF i > Len(devices) THEN g
    ELSE CollectAll(collectDeviceMetrics(g, devices[i]), devices, i + 1)

\* ------------------------------------------------------- traffic snapshots
\* An element of the JSON array that inetstat_monitor.lua answers with: null
\* (a nil *TrafficMonitoringData) or an object; a series that the object
\* does not have is an empty slice.
NullElem == [null |-> TRUE, series |-> [n \in SeriesNames |-> <<>>]]

\* Client.NetworkStats on the router's reply: the request fails (session or
\* transport error), the body is not a JSON array of objects, the array is
\* empty, or its first element is returned.
NetworkStats(reply) ==
    IF reply.fail THEN [stats |-> NullElem, err |-> "request"]
    ELSE IF reply.malformed THEN [stats |-> NullElem, err |-> "decode"]
    ELSE IF Len(reply.elems) = 0 THEN [stats |-> NullElem, err |-> "nodata"]
    ELSE [stats |-> reply.elems[1], err |-> "nil"]

\* Position in NetworkSeries of the first series without a bucket, 9 if
\* every series has one.
RECURSIVE FirstShort(_, _)
FirstShort(stats, i) ==
    IF i > 8 THEN 9
    ELSE IF Len(stats.series[NetworkSeries[i]]) = 0 THEN i
    ELSE FirstShort(stats, i + 1)

\* Number of gauges NetworkMetrics.FetchFrom sets before it is done or
\* panics: stats.X[0] on a nil stats or on an empty slice is a run-time panic.
GaugesSet(stats) == IF stats.null THEN 0 ELSE FirstShort(stats, 1) - 1

NetworkPanics(stats) == GaugesSet(stats) < 8

NetworkGaugesAfter(g, stats) ==
    [key \in GaugeKeys |->
        IF /\ key[1] = "network"
           /\ \E i \in 1..GaugesSet(stats) : NetworkSeries[i] = key[2]
        THEN Mul8(stats.series[key[2]][1])
        ELSE g[key]]

\* ------------------------------------------------------------------- Init
\* NewServer and fritzbox.New: nothing runs yet, no session is cached.
ServerInit ==
    /\ main = "run"
    /\ wg = 0
    /\ ctxDone = FALSE
    /\ cancelInPoll = FALSE
    /\ pc = [t \in Tasks |-> "none"]
    /\ tickCh = [t \in Tasks |-> 0]
    /\ feeder = [t \in Tasks |-> "none"]
    /\ inflight = [t \in Tasks |-> 0]
    /\ pollResult = [t \in Tasks |-> "none"]
    /\ mu = Free
    /\ session = EmptySession
    /\ req = [t \in Tasks |-> NoReq]
    /\ loginReqs = [t \in Tasks |-> 0]
    /\ loginResult = [t \in Tasks |-> "none"]
    /\ routerValid = {}
    /\ routerChallenge = 1
    /\ nextSid = 1
    /\ password \in {RouterPassword, WrongPassword}
    /\ httpPc = "none"
    /\ serverErr = FALSE
    /\ shutdownCalled = FALSE
    /\ shutdownErr = FALSE
    /\ runResult = "none"
    /\ sigPc = "none"
    /\ signals = 0
    /\ closeErr = "none"
    /\ logoutReq = EmptySID

Init ==
    /\ ServerInit
    /\ gauges = NotFollowed
    /\ arg = NotFollowed
    /\ ret = NotFollowed

\* ----------------------------------------------------------- cancellation
\* shutdown(): the cancel function of context.WithCancel; calling it again
\* changes nothing.
ShutdownToggles ==
    /\ ctxDone' = ~ctxDone
    /\ cancelInPoll' = IF ctxDone THEN cancelInPoll
                       ELSE \E t \in Tasks : pc[t] \in PollPcs

Shutdown ==
    /\ ctxDone' = TRUE
    /\ cancelInPoll' = IF ctxDone THEN cancelInPoll
                       ELSE \E t \in Tasks : pc[t] \in PollPcs

\* ------------------------------------------------------------- Server.Run
\* Run up to its call of CollectMetrics, and CollectMetrics up to wg.Wait:
\* the two goroutines of Run and the two loops are created.
RunStart ==
    /\ main = "run"
    /\ main' = "wait"
    /\ httpPc' = "serving"
    /\ sigPc' = "start"
    /\ wg' = WaitGroupSize
    /\ pc' = [t \in Tasks |-> "start"]
    /\ UNCHANGED <<tickCh, feeder, inflight, pollResult, clientVars,
                   routerVars, password, unitVars, serverErr, shutdownCalled, shutdownErr,
                   runResult, signals, cancelVars, closeVars>>

\* -------------------------------------------------------------- newTicker
\* wg.Done() in a loop that stops.
LoopDoneTwice(w) == w - 2

LoopDone(w) == w - 1

\* What the feeder goroutine does after it has sent one interval tick into
\* the loop's channel (server.go line 139).
FeederAfterSend == "exited"

\* ch <- time.Now(): the first tick is put into the new, empty channel.
FirstTickMissing(n) == n

FirstTickSent(n) == n + 1

\* newTicker, called first thing by the loop: the channel is made with one
\* tick in it and the feeder goroutine is started.
LoopStart(t) ==
    /\ Alive
    /\ pc[t] = "start"
    /\ tickCh' = [tickCh EXCEPT ![t] = FirstTickSent(0)]
    /\ feeder' = [feeder EXCEPT ![t] = "newTicker"]
    /\ pc' = [pc EXCEPT ![t] = "select"]
    /\ UNCHANGED <<main, wg, inflight, pollResult, clientVars, routerVars,
                   password, unitVars, httpVars, sigVars, cancelVars, closeVars>>

\* Feeder, ti := time.NewTicker(interval): it panics for an interval that
\* is not positive.
FeederNewTicker(t) ==
    /\ Alive
    /\ feeder[t] = "newTicker"
    /\ \E interval \in LoopIntervals :
         IF NewTickerPanics(interval)
         THEN Panic
         ELSE /\ feeder' = [feeder EXCEPT ![t] = "waitTick"]
              /\ UNCHANGED <<main, wg, pc, tickCh, inflight, pollResult, clientVars,
                             routerVars, password, unitVars, httpVars, sigVars,
                             cancelVars, closeVars>>

\* Feeder, first select: case next = <-ti.C, the interval has elapsed.
FeederRecvTick(t) ==
    /\ Alive
    /\ feeder[t] = "waitTick"
    /\ feeder' = [feeder EXCEPT ![t] = "sendTick"]
    /\ UNCHANGED <<main, wg, pc, tickCh, inflight, pollResult, clientVars,
                   routerVars, password, unitVars, httpVars, sigVars, cancelVars, closeVars>>

\* A send on the tick channel can proceed: its buffer is not full.
ChanNeverFull(n) == TRUE

ChanHasRoom(n) == n < TickChanCap

\* Feeder, second select: case ch <- next
FeederSendTick(t) ==
    /\ Alive
    /\ feeder[t] = "sendTick"
    /\ ChanHasRoom(tickCh[t])
    /\ tickCh' = [tickCh EXCEPT ![t] = @ + 1]
    /\ feeder' = [feeder EXCEPT ![t] = FeederAfterSend]
    /\ UNCHANGED <<main, wg, pc, inflight, pollResult, clientVars,
                   routerVars, password, unitVars, httpVars, sigVars, cancelVars, closeVars>>

\* Feeder, either select: case <-ctx.Done()
FeederCancelled(t) ==
    /\ Alive
    /\ feeder[t] \in {"waitTick", "sendTick"}
    /\ ctxDone
    /\ feeder' = [feeder EXCEPT ![t] = "exited"]
    /\ UNCHANGED <<main, wg, pc, tickCh, inflight, pollResult, clientVars,
                   routerVars, password, unitVars, httpVars, sigVars, cancelVars, closeVars>>

\* ------------------------------------------------------ the polling loops
\* The loop is at its select statement, ready to receive.
LoopReadyWhilePolling(t) == pc[t] \in {"select"} \cup PollPcs

LoopReady(t) == pc[t] = "select"

\* A poll (FetchFrom) returns to the loop.
PollEndStopsOnError(t, result) ==
    /\ pc' = [pc EXCEPT ![t] = IF result = "err" THEN "stopped" ELSE "select"]
    /\ inflight' = [inflight EXCEPT ![t] = @ - 1]
    /\ pollResult' = [pollResult EXCEPT ![t] = result]

PollEnd(t, result) ==
    /\ pc' = [pc EXCEPT ![t] = "select"]
    /\ inflight' = [inflight EXCEPT ![t] = @ - 1]
    /\ pollResult' = [pollResult EXCEPT ![t] = result]

\* The data request of a poll is sent with the sid it was given.
SendData(t, sid) ==
    req' = [req EXCEPT ![t] = [ep |-> "data", sid |-> sid,
                               response |-> NoResponse, username |-> ""]]

\* select: case <-ticker, the loop calls FetchFrom, which calls Devices or
\* NetworkStats, which asks for the session.
LoopTakeTick(t) ==
    /\ Alive
    /\ LoopReady(t)
    /\ tickCh[t] > 0
    /\ tickCh' = [tickCh EXCEPT ![t] = @ - 1]
    /\ pc' = [pc EXCEPT ![t] = "getSession"]
    /\ inflight' = [inflight EXCEPT ![t] = @ + 1]
    /\ UNCHANGED <<main, wg, feeder, pollResult, clientVars, routerVars,
                   password, unitVars, httpVars, sigVars, cancelVars, closeVars>>

\* select: case <-ctx.Done(), the loop calls wg.Done and returns.
LoopCancelled(t) ==
    /\ Alive
    /\ LoopReady(t)
    /\ ctxDone
    /\ pc' = [pc EXCEPT ![t] = "stopped"]
    /\ wg' = LoopDone(wg)
    /\ UNCHANGED <<main, tickCh, feeder, inflight, pollResult, clientVars,
                   routerVars, password, unitVars, httpVars, sigVars, cancelVars, closeVars>>

\* ------------------------------------------------------------- the client
\* c.mu.Lock() can be taken.
MutexIgnored(t) == TRUE

MutexAvailable(t) == mu = Free

\* The condition under which the session is (re)established before a data
\* call: if c.session.SID == "" { c.login() }.
NeedsLogin(sid) == sid = EmptySID

\* login: if c.session.SID != zeroSessionID { return nil }
SessionStillValidInverted(sid) == sid = zeroSessionID

SessionStillValid(sid) == sid # zeroSessionID

\* login: if c.session.SID == "" || c.session.SID == zeroSessionID { return error }
LoginRejectedOnlyEmpty(sid) == sid = EmptySID

LoginRejectedNever(sid) == FALSE

LoginRejected(sid) == sid = EmptySID \/ sid = zeroSessionID

\* getSession: under the client's mutex, log in if NeedsLogin and return the
\* cached sid; the caller then sends its data request with that sid.
GetSession(t) ==
    /\ Alive
    /\ pc[t] = "getSession"
    /\ MutexAvailable(t)
    /\ IF NeedsLogin(session.SID)
       THEN /\ mu' = t
            /\ pc' = [pc EXCEPT ![t] = "login"]
            /\ loginReqs' = [loginReqs EXCEPT ![t] = 0]
            /\ loginResult' = [loginResult EXCEPT ![t] = "running"]
            /\ UNCHANGED <<req>>
       ELSE /\ SendData(t, session.SID)
            /\ pc' = [pc EXCEPT ![t] = "data"]
            /\ UNCHANGED <<mu, loginReqs, loginResult>>
    /\ UNCHANGED <<main, wg, tickCh, feeder, inflight, pollResult, session,
                   routerVars, password, unitVars, httpVars, sigVars, cancelVars, closeVars>>

\* login, first request: getXML(&c.session, "/login_sid.lua", "sid", c.session.SID)
LoginSendChallenge(t) ==
    /\ Alive
    /\ pc[t] = "login"
    /\ req' = [req EXCEPT ![t] = [ep |-> "login", sid |-> session.SID,
                                  response |-> NoResponse, username |-> ""]]
    /\ loginReqs' = [loginReqs EXCEPT ![t] = @ + 1]
    /\ pc' = [pc EXCEPT ![t] = "login1"]
    /\ UNCHANGED <<main, wg, tickCh, feeder, inflight, pollResult, mu,
                   session, loginResult, routerVars, password, unitVars,
                   httpVars, sigVars, cancelVars, closeVars>>

\* The elements of a reply the decoder has read when a request of login
\* fails: none when the transport fails or the status is bad, some or all
\* of them when the document breaks off or is malformed further on.
\* xml.Decoder.Decode has written what it read into the cached Session.
\* The router writes SID before Challenge, so what has been read is a
\* prefix of the document.
SessionElements == {{}, {"SID"}, {"SID", "Challenge"}}

ReadOf(reply, read) == [f \in read |-> reply[f]]

\* login, the first request fails: "failed to get login challenge".
LoginChallengeFail(t) ==
    /\ Alive
    /\ pc[t] = "login1"
    /\ \E read \in SessionElements :
         LET reply == RouterCheckReply(req[t].sid)
         IN  /\ session' = DecodeSession(session, ReadOf(reply, read))
             /\ routerChallenge' = IF read = {} THEN routerChallenge
                                   ELSE reply.Challenge
    /\ req' = [req EXCEPT ![t] = NoReq]
    /\ loginResult' = [loginResult EXCEPT ![t] = "challengeErr"]
    /\ mu' = Free
    /\ PollEnd(t, "err")
    /\ UNCHANGED <<main, wg, tickCh, feeder, loginReqs, routerValid, nextSid,
                   password, unitVars, httpVars, sigVars, cancelVars, closeVars>>

\* login, the router answers the first request.
LoginChallengeReply(t) ==
    /\ Alive
    /\ pc[t] = "login1"
    /\ LET reply == RouterCheckReply(req[t].sid)
           s2 == DecodeSession(session, reply)
       IN  /\ routerChallenge' = reply.Challenge
           /\ session' = s2
           /\ IF SessionStillValid(s2.SID)
              THEN /\ loginResult' = [loginResult EXCEPT ![t] = "valid"]
                   /\ mu' = Free
                   /\ SendData(t, s2.SID)
                   /\ pc' = [pc EXCEPT ![t] = "data"]
                   /\ UNCHANGED loginReqs
              ELSE /\ req' = [req EXCEPT ![t] =
                                [ep |-> "login", sid |-> NoSid,
                                 response |-> solveChallenge(s2, password),
                                 username |-> Username]]
                   /\ loginReqs' = [loginReqs EXCEPT ![t] = @ + 1]
                   /\ pc' = [pc EXCEPT ![t] = "login2"]
                   /\ UNCHANGED <<mu, loginResult>>
    /\ UNCHANGED <<main, wg, tickCh, feeder, inflight, pollResult,
                   routerValid, nextSid, password, unitVars, httpVars, sigVars,
                   cancelVars, closeVars>>

\* login, the second request fails: "failed to submit challenge response".
LoginSubmitFail(t) ==
    /\ Alive
    /\ pc[t] = "login2"
    /\ \E read \in SessionElements :
         LET reply == RouterLoginReply(req[t])
             issued == read # {} /\ RouterAccepts(req[t])
         IN  /\ issued => nextSid \in Tokens
             /\ session' = DecodeSession(session, ReadOf(reply, read))
             /\ routerChallenge' = IF read = {} THEN routerChallenge
                                   ELSE reply.Challenge
             /\ routerValid' = IF issued THEN routerValid \cup {nextSid}
                               ELSE routerValid
             /\ nextSid' = IF issued THEN nextSid + 1 ELSE nextSid
    /\ req' = [req EXCEPT ![t] = NoReq]
    /\ loginResult' = [loginResult EXCEPT ![t] = "submitErr"]
    /\ mu' = Free
    /\ PollEnd(t, "err")
    /\ UNCHANGED <<main, wg, tickCh, feeder, loginReqs, password, unitVars,
                   httpVars, sigVars, cancelVars, closeVars>>

\* login, the router answers the response submission.
LoginSubmitReply(t) ==
    /\ Alive
    /\ pc[t] = "login2"
    /\ RouterAccepts(req[t]) => nextSid \in Tokens
    /\ LET reply == RouterLoginReply(req[t])
           s2 == DecodeSession(session, reply)
       IN  /\ routerChallenge' = reply.Challenge
           /\ routerValid' = IF RouterAccepts(req[t])
                             THEN routerValid \cup {nextSid} ELSE routerValid
           /\ nextSid' = IF RouterAccepts(req[t]) THEN nextSid + 1 ELSE nextSid
           /\ session' = s2
           /\ mu' = Free
           /\ IF LoginRejected(s2.SID)
              THEN /\ loginResult' = [loginResult EXCEPT ![t] = "authErr"]
                   /\ req' = [req EXCEPT ![t] = NoReq]
                   /\ PollEnd(t, "err")
                   /\ TRUE
              ELSE /\ loginResult' = [loginResult EXCEPT ![t] = "ok"]
                   /\ SendData(t, s2.SID)
                   /\ pc' = [pc EXCEPT ![t] = "data"]
                   /\ UNCHANGED <<inflight, pollResult>>
    /\ UNCHANGED <<main, wg, tickCh, feeder, loginReqs, password, unitVars, httpVars,
                   sigVars, cancelVars, closeVars>>

\* The data request fails: transport error, a status other than 200 (the
\* router refuses a sid it does not know), or a reply that does not decode.
DataFail(t) ==
    /\ Alive
    /\ pc[t] = "data"
    /\ req' = [req EXCEPT ![t] = NoReq]
    /\ PollEnd(t, "err")
    /\ UNCHANGED <<main, wg, tickCh, feeder, mu, session, loginReqs,
                   loginResult, routerVars, password, unitVars, httpVars,
                   sigVars, cancelVars, closeVars>>

\* The router answers the data request of a session it accepts.
DataReply(t) ==
    /\ Alive
    /\ pc[t] = "data"
    /\ req[t].sid \in routerValid
    /\ req' = [req EXCEPT ![t] = NoReq]
    /\ PollEnd(t, "ok")
    /\ UNCHANGED <<main, wg, tickCh, feeder, mu, session, loginReqs,
                   loginResult, routerVars, password, unitVars, httpVars,
                   sigVars, cancelVars, closeVars>>

\* The router answers the network request with [null], or with an object
\* that lacks a series: NetworkMetrics.FetchFrom dereferences the nil
\* snapshot, or indexes the empty series, and panics.
DataPanic(t) ==
    /\ Alive
    /\ t = "network"
    /\ pc[t] = "data"
    /\ req[t].sid \in routerValid
    /\ Panic

\* The router times a session out.
RouterExpire ==
    /\ routerValid # {}
    /\ routerValid' = {}
    /\ UNCHANGED <<schedVars, clientVars, routerChallenge, nextSid, password, unitVars,
                   httpVars, sigVars, cancelVars, closeVars>>

\* --------------------------------------------------- the signal listener
\* The operating system delivers a termination signal.  s.interrupt is
\* made without a buffer and signal.Notify never blocks on a send: the
\* signal is handed over only to a listener that is waiting in its select,
\* otherwise it is dropped: before Run has started the listener, after
\* go func() while the goroutine has not yet reached its select, and once
\* the listener has left it.
SignalTaken == sigPc = "select" /\ ~ctxDone

SignalArrives ==
    /\ Alive
    /\ signals < MaxSignals
    /\ signals' = signals + 1
    /\ sigPc' = IF SignalTaken THEN "gotSignal" ELSE sigPc
    /\ UNCHANGED <<schedVars, clientVars, routerVars, password, unitVars, httpVars,
                   cancelVars, closeVars>>

\* The goroutine Run has started runs and waits in its select.
SigStart ==
    /\ Alive
    /\ sigPc = "start"
    /\ sigPc' = "select"
    /\ UNCHANGED <<schedVars, clientVars, routerVars, password, unitVars, httpVars,
                   signals, cancelVars, closeVars>>

\* case sig := <-s.interrupt: log and call shutdown().
SigShutdown ==
    /\ Alive
    /\ sigPc = "gotSignal"
    /\ sigPc' = "done"
    /\ Shutdown
    /\ UNCHANGED <<schedVars, clientVars, routerVars, password, unitVars, httpVars,
                   signals, closeVars>>

\* case <-ctx.Done(): return.
SigCtxDone ==
    /\ Alive
    /\ sigPc = "select"
    /\ ctxDone
    /\ sigPc' = "done"
    /\ UNCHANGED <<schedVars, clientVars, routerVars, password, unitVars, httpVars,
                   signals, cancelVars, closeVars>>

\* ------------------------------------------------ the HTTP serving goroutine
\* ListenAndServe returns an error other than http.ErrServerClosed (the
\* address cannot be bound, the listener breaks).
HttpFail ==
    /\ Alive
    /\ httpPc = "serving"
    /\ ~shutdownCalled
    /\ httpPc' = "failed"
    /\ UNCHANGED <<schedVars, clientVars, routerVars, password, unitVars, serverErr,
                   shutdownCalled, shutdownErr, runResult, sigVars, cancelVars,
                   closeVars>>

\* ListenAndServe returns http.ErrServerClosed after Shutdown was called.
HttpClosed ==
    /\ Alive
    /\ httpPc = "serving"
    /\ shutdownCalled
    /\ httpPc' = "shutdown"
    /\ UNCHANGED <<schedVars, clientVars, routerVars, password, unitVars, serverErr,
                   shutdownCalled, shutdownErr, runResult, sigVars, cancelVars,
                   closeVars>>

\* if err != http.ErrServerClosed { serverErr = ... }
HttpSetErr ==
    /\ Alive
    /\ httpPc = "failed"
    /\ serverErr' = TRUE
    /\ httpPc' = "shutdown"
    /\ UNCHANGED <<schedVars, clientVars, routerVars, password, unitVars, shutdownCalled,
                   shutdownErr, runResult, sigVars, cancelVars, closeVars>>

\* The goroutine's closing shutdown().
HttpCallShutdown ==
    /\ Alive
    /\ httpPc = "shutdown"
    /\ httpPc' = "done"
    /\ Shutdown
    /\ UNCHANGED <<schedVars, clientVars, routerVars, password, unitVars, serverErr,
                   shutdownCalled, shutdownErr, runResult, sigVars, closeVars>>

\* ------------------------------------------------- Run after CollectMetrics
\* wg.Wait() returns.
WaitDoneEarly == wg <= 1

WaitDone == wg = 0

\* logout: if c.session.SID == "" { return nil }
LogoutNoSession(sid) == sid = EmptySID

\* CollectMetrics returns and Run calls FritzBox.Close: logout sends its
\* request unless there is no session.
CloseStart ==
    /\ main = "wait"
    /\ WaitDone
    /\ IF LogoutNoSession(session.SID)
       THEN /\ closeErr' = "nil"
            /\ main' = "httpShutdown"
            /\ UNCHANGED logoutReq
       ELSE /\ logoutReq' = session.SID
            /\ main' = "logout"
            /\ UNCHANGED closeErr
    /\ UNCHANGED <<wg, pc, tickCh, feeder, inflight, pollResult, clientVars,
                   routerVars, password, unitVars, httpVars, sigVars, cancelVars>>

\* The router answers the logout request and drops the session.
LogoutReply ==
    /\ main = "logout"
    /\ routerValid' = routerValid \ {logoutReq}
    /\ logoutReq' = EmptySID
    /\ closeErr' = "nil"
    /\ main' = "httpShutdown"
    /\ UNCHANGED <<wg, pc, tickCh, feeder, inflight, pollResult, clientVars,
                   routerChallenge, nextSid, password, unitVars, httpVars, sigVars,
                   cancelVars>>

\* The logout request fails (transport error, bad status): Close returns
\* the error, which Run logs.  logout() hands no context to its request, so
\* no timeout of Close ends a request that is neither answered nor failed.
LogoutFail ==
    /\ main = "logout"
    /\ logoutReq' = EmptySID
    /\ closeErr' = "err"
    /\ main' = "httpShutdown"
    /\ UNCHANGED <<wg, pc, tickCh, feeder, inflight, pollResult, clientVars,
                   routerVars, password, unitVars, httpVars, sigVars, cancelVars>>

\* httpServer.Shutdown(ctx) is called: the listener is closed, so that
\* ListenAndServe returns, and Shutdown waits for the connections, 3 s at
\* most.
HttpShutdown ==
    /\ main = "httpShutdown"
    /\ shutdownCalled' = TRUE
    /\ main' = "shutdownWait"
    /\ UNCHANGED <<wg, pc, tickCh, feeder, inflight, pollResult, clientVars,
                   routerVars, password, unitVars, httpPc, serverErr, shutdownErr,
                   runResult, sigVars, cancelVars, closeVars>>

\* httpServer.Shutdown returns nil or the timeout's error, which Run logs.
HttpShutdownReturn ==
    /\ main = "shutdownWait"
    /\ shutdownErr' \in BOOLEAN
    /\ main' = "return"
    /\ UNCHANGED <<wg, pc, tickCh, feeder, inflight, pollResult, clientVars,
                   routerVars, password, unitVars, httpPc, serverErr, shutdownCalled,
                   runResult, sigVars, cancelVars, closeVars>>

\* Run's return value: serverErr, whatever Close and Shutdown returned.
RunResultEscalatesClose == IF serverErr \/ closeErr = "err" THEN "err" ELSE "nil"

RunResult == IF serverErr THEN "err" ELSE "nil"

\* Shutdown returned an error (the grace period ran out with connections
\* still open) and Run only logs it: nothing closes those connections.
OpenConnections == shutdownCalled /\ shutdownErr

\* return serverErr
RunReturn ==
    /\ main = "return"
    /\ runResult' = RunResult
    /\ main' = "returned"
    /\ UNCHANGED <<wg, pc, tickCh, feeder, inflight, pollResult, clientVars,
                   routerVars, password, unitVars, httpPc, serverErr, shutdownCalled,
                   shutdownErr, sigVars, cancelVars, closeVars>>

\* ------------------------------------------------------------ specification
FeederStep(t) == FeederNewTicker(t) \/ FeederRecvTick(t) \/ FeederSendTick(t) \/ FeederCancelled(t)

LoopStep(t) ==
    \/ LoopStart(t) \/ LoopTakeTick(t) \/ LoopCancelled(t)
    \/ GetSession(t) \/ LoginSendChallenge(t)
    \/ LoginChallengeFail(t) \/ LoginChallengeReply(t)
    \/ LoginSubmitFail(t) \/ LoginSubmitReply(t)
    \/ DataFail(t) \/ DataReply(t) \/ DataPanic(t)

MainStep ==
    \/ RunStart \/ CloseStart \/ LogoutReply \/ LogoutFail
    \/ HttpShutdown \/ HttpShutdownReturn \/ RunReturn

SigStep == SigStart \/ SigShutdown \/ SigCtxDone

HttpStep == HttpFail \/ HttpClosed \/ HttpSetErr \/ HttpCallShutdown

Next ==
    \/ MainStep
    \/ SigStep
    \/ SignalArrives
    \/ HttpStep
    \/ RouterExpire
    \/ \E t \in Tasks : FeederStep(t) \/ LoopStep(t)

Spec == Init /\ [][Next]_vars

\* The end of the data request of a poll.  The request carries the context
\* of Run (c.get(ctx, ...), req.WithContext(ctx)): once the context is
\* cancelled the request ends, answered or aborted.
DataEnd(t) == DataFail(t) \/ DataReply(t) \/ DataPanic(t)

\* The steps the program takes by itself once it can: a goroutine that is
\* ready runs, a select with a ready case takes one, a timer fires, a
\* request whose context is cancelled ends.  Left out are the steps that are
\* up to the router and the network: the end of a login or logout request
\* (login and logout call getXML and get without a context, on
\* http.DefaultClient, which has no timeout), the end of a data request
\* while the context is live, a failure of ListenAndServe, the delivery of
\* a signal and the router timing a session out.
FairStep ==
    \/ RunStart \/ CloseStart \/ HttpShutdown \/ HttpShutdownReturn \/ RunReturn
    \/ SigStep
    \/ HttpClosed \/ HttpSetErr \/ HttpCallShutdown
    \/ \E t \in Tasks :
          \/ FeederStep(t)
          \/ LoopStart(t) \/ LoopTakeTick(t) \/ LoopCancelled(t)
          \/ GetSession(t) \/ LoginSendChallenge(t)
          \/ ctxDone /\ DataEnd(t)

\* Fair scheduling of the program; nothing is assumed of the router, the
\* network or the signals.
FairSpec == Spec /\ WF_vars(FairStep)

\* Every step of the program except the end of the logout request, which
\* is up to the router and the network: logout's c.get carries no context
\* and http.DefaultClient has no timeout.
StepButLogoutEnd ==
    \/ RunStart \/ CloseStart \/ HttpShutdown \/ HttpShutdownReturn \/ RunReturn
    \/ SigStep
    \/ HttpStep
    \/ \E t \in Tasks : FeederStep(t) \/ LoopStep(t)

\* Fair scheduling of the program against a router that may never answer
\* the logout request.
SilentRouterSpec == Spec /\ WF_vars(StepButLogoutEnd)

\* ------------------------------------------------ the polls on their own
\* DeviceMetrics.FetchFrom and NetworkMetrics.FetchFrom as units: each call
\* gets a reply of the router and publishes it into the gauges.
\* MaxFetches bounds the number of calls that are followed.
MaxFetches == 2

GoodRaw == [Present |-> 1, Celsius |-> <<"2", "3", "5">>,
            Power |-> <<"1", "5", "0", "0">>, Voltage |-> <<"2", "3", "0", "0", "0">>,
            Energy |-> <<"4", "2">>, State |-> <<"1">>]

BadRaw == [Present |-> 0, Celsius |-> <<>>,
           Power |-> <<"1", ",", "5">>, Voltage |-> <<"1", "e", "4", "0", "0">>,
           Energy |-> <<"-", "1", "e", "4", "0">>, State |-> <<"0">>]

BitmapSamples == {<<"8", "9", "6">>, <<"2", "5", "6">>, <<>>}

Device(name, bitmap, raw) ==
    [Name |-> name, CapabilitiesBitmap |-> bitmap, Present |-> raw.Present,
     Celsius |-> raw.Celsius, Power |-> raw.Power, Voltage |-> raw.Voltage,
     Energy |-> raw.Energy, State |-> raw.State]

DeviceSamples(name) ==
    {Device(name, b, r) : b \in BitmapSamples, r \in {GoodRaw, BadRaw}}

DeviceLists ==
    {<<>>} \cup {<<d>> : d \in DeviceSamples("plug") \cup DeviceSamples("sensor")}
           \cup {<<d1, d2>> : d1 \in DeviceSamples("plug"), d2 \in DeviceSamples("sensor")}

\* A snapshot whose series number short (if any) has no bucket; the others
\* have two buckets, or one.
Snapshot(short, two) ==
    [null |-> FALSE,
     series |-> [n \in SeriesNames |->
        LET i == CHOOSE j \in 1..8 : NetworkSeries[j] = n
        IN  IF i = short THEN <<>>
            ELSE IF two THEN <<FloatOf(125000 + i), FloatOf(7)>>
            ELSE <<FloatOf(i)>>]]

SnapshotSamples == {Snapshot(short, two) : short \in 0..8, two \in BOOLEAN}

Reply(fam, fail, malformed, elems) ==
    [fam |-> fam, fail |-> fail, malformed |-> malformed, elems |-> elems]

NoReply == Reply("none", FALSE, FALSE, <<>>)

NetworkReplies ==
    {Reply("network", TRUE, FALSE, <<>>), Reply("network", FALSE, TRUE, <<>>),
     Reply("network", FALSE, FALSE, <<>>), Reply("network", FALSE, FALSE, <<NullElem>>),
     Reply("network", FALSE, FALSE, <<Snapshot(0, TRUE), Snapshot(1, FALSE)>>)}
    \cup {Reply("network", FALSE, FALSE, <<sn>>) : sn \in SnapshotSamples}

DeviceReplies ==
    {Reply("device", TRUE, FALSE, <<>>), Reply("device", FALSE, TRUE, <<>>)}
    \cup {Reply("device", FALSE, FALSE, ds) : ds \in DeviceLists}

Result(fn, res, statsErr, statsNull, calls) ==
    [fn |-> fn, res |-> res, statsErr |-> statsErr, statsNull |-> statsNull,
     calls |-> calls]

MetricsInit ==
    /\ ServerInit
    /\ gauges = NewGauges
    /\ arg = NoReply
    /\ ret = Result("none", "none", "none", FALSE, 0)

\* The process is alive (no poll has panicked) and another call is followed.
CanFetch == ret.res # "panic" /\ ret.calls < MaxFetches

\* client.Devices returns an error: the request failed (session or
\* transport error) or the reply does not decode.
DevicesFailedOnlyTransport(reply) == reply.fail

DevicesFailed(reply) == reply.fail \/ reply.malformed

\* DeviceMetrics.FetchFrom: the error of client.Devices is wrapped and
\* returned before anything is published.
DeviceFetchFrom ==
    /\ CanFetch
    /\ \E reply \in DeviceReplies :
         /\ arg' = reply
         /\ IF DevicesFailed(reply)
            THEN /\ gauges' = gauges
                 /\ ret' = Result("device", "err", "none", FALSE, ret.calls + 1)
            ELSE /\ gauges' = CollectAll(gauges, reply.elems, 1)
                 /\ ret' = Result("device", "nil", "none", FALSE, ret.calls + 1)
    /\ UNCHANGED <<schedVars, clientVars, routerVars, password, httpVars,
                   sigVars, cancelVars, closeVars>>

\* NetworkMetrics.FetchFrom: the error of client.NetworkStats is returned
\* before anything is published; otherwise the eight gauges are set one
\* after the other, and an index out of range or a nil stats panics.
NetworkFetchFrom ==
    /\ CanFetch
    /\ \E reply \in NetworkReplies :
         LET r == NetworkStats(reply)
         IN  /\ arg' = reply
             /\ IF r.err # "nil"
                THEN /\ gauges' = gauges
                     /\ ret' = Result("network", "err", r.err, TRUE, ret.calls + 1)
                ELSE /\ gauges' = NetworkGaugesAfter(gauges, r.stats)
                     /\ ret' = Result("network",
                                      IF NetworkPanics(r.stats) THEN "panic" ELSE "nil",
                                      r.err, r.stats.null, ret.calls + 1)
    /\ UNCHANGED <<schedVars, clientVars, routerVars, password, httpVars,
                   sigVars, cancelVars, closeVars>>

MetricsNext == DeviceFetchFrom \/ NetworkFetchFrom

MetricsSpec == MetricsInit /\ [][MetricsNext]_vars

\* ------------------------------------- collectDeviceMetrics on its own
\* The strings of at most n characters of the set chars.
RECURSIVE Strings(_, _)
Strings(chars, n) ==
    IF n = 0 THEN {<<>>}
    ELSE LET shorter == Strings(chars, n - 1)
         IN  shorter \cup {Append(str, c) : str \in shorter, c \in chars}

\* Length of the bitmask strings that are enumerated.
MaxBitmapLen == 3

BitmapChars == {"0", "1", "2", "5", "6", "8", "9", "-"}

\* Digit strings around the limits of an int64, one of them followed by a
\* character that is no digit.
WideBitmaps ==
    {<<"9", "2", "2", "3", "3", "7", "2", "0", "3", "6", "8", "5", "4", "7", "7", "5", "9", "3", "6">>,
     <<"-", "9", "2", "2", "3", "3", "7", "2", "0", "3", "6", "8", "5", "4", "7", "7", "5", "8", "0", "9">>,
     <<"9", "9", "9", "9", "9", "9", "9", "9", "9", "9", "9", "9", "9", "9", "9", "9", "9", "9", "9", "9">>,
     <<"0", "0", "0", "0", "0", "0", "0", "0", "0", "0", "0", "0", "0", "0", "0", "0", "0", "0", "0", "8", "9", "6">>,
     <<"9", "9", "9", "9", "9", "9", "9", "9", "9", "9", "9", "9", "9", "9", "9", "9", "9", "9", "9", "9", "x">>}

Bitmaps == Strings(BitmapChars, MaxBitmapLen) \cup WideBitmaps

CollectInit ==
    /\ ServerInit
    /\ gauges = NewGauges
    /\ arg \in {Device(name, b, r) :
                  name \in DeviceNames, b \in Bitmaps, r \in {GoodRaw, BadRaw}}
    /\ ret = Result("none", "none", "none", FALSE, 0)

CollectDeviceMetrics ==
    /\ ret.fn = "none"
    /\ gauges' = collectDeviceMetrics(gauges, arg)
    /\ ret' = Result("collect", "nil", "none", FALSE, 1)
    /\ UNCHANGED <<schedVars, clientVars, routerVars, password, httpVars,
                   sigVars, cancelVars, closeVars, arg>>

CollectSpec == CollectInit /\ [][CollectDeviceMetrics]_vars

\* --------------------------------------------------- Device.Has on its own
HANFUNCompatibility == 0

CapabilitySets ==
    SUBSET {HANFUNCompatibility, PowerSensor, TemperatureSensor, StateSwitch} \ {{}}

Called(fn, val) == [fn |-> fn, val |-> val]

NotCalled == Called("none", 0)

HasInit ==
    /\ ServerInit
    /\ gauges = NotFollowed
    /\ arg \in [CapabilitiesBitmap : Bitmaps, cs : CapabilitySets]
    /\ ret = NotCalled

CallHas ==
    /\ ret.fn = "none"
    /\ ret' = Called("Has", Has(arg.CapabilitiesBitmap, arg.cs))
    /\ UNCHANGED <<schedVars, clientVars, routerVars, password, httpVars,
                   sigVars, cancelVars, closeVars, gauges, arg>>

HasSpec == HasInit /\ [][CallHas]_vars

\* ------------------------------------------------ Config.Validate on its own
Configs ==
    [ListenAddr : {"", "0:0:0:0:3000"},
     Username : {"", "admin"},
     Password : {"", "secret"},
     BaseURL : {"", "http://fritz.box"},
     DeviceMonitoringInterval : Intervals,
     NetworkMonitoringInterval : Intervals]

\* if cond { err = multierr.Append(err, fmt.Errorf(msg)) }
Rule(cond, msg) == IF cond THEN <<msg>> ELSE <<>>

\* Config.Validate: the messages of the combined error, in order; the empty
\* sequence is a nil error.  The password rule tests the user name.
Validate(c) ==
    Rule(c.ListenAddr = "", "missing listen_addr")
    \o Rule(c.Username = "", "missing fritzbox.username")
    \o Rule(c.Username = "", "missing fritzbox.password")
    \o Rule(c.DeviceMonitoringInterval = 0, "device_monitoring_interval cannot be zero")
    \o Rule(c.NetworkMonitoringInterval = 0, "network_monitoring_interval cannot be zero")
    \o Rule(c.BaseURL = "", "FRITZ!Box base URL cannot be empty")

ValidateInit ==
    /\ ServerInit
    /\ gauges = NotFollowed
    /\ arg \in Configs
    /\ ret = NotCalled

CallValidate ==
    /\ ret.fn = "none"
    /\ ret' = Called("Validate", Validate(arg))
    /\ UNCHANGED <<schedVars, clientVars, routerVars, password, httpVars,
                   sigVars, cancelVars, closeVars, gauges, arg>>

ValidateSpec == ValidateInit /\ [][CallValidate]_vars

\* ------------------------------------------- the raw accessors on their own
RawChars == {"0", "1", "4", "-", ".", "e"}

\* Strings of the other forms strconv.ParseFloat reads (special values,
\* hexadecimal digits, underscores, limits of the range, values whose
\* quotient is rounded a second time) and refuses.
SpecialRaws ==
    {<<"i", "n", "f">>,
     <<"-", "I", "n", "f">>,
     <<"+", "I", "n", "f", "i", "n", "i", "t", "y">>,
     <<"N", "a", "N">>,
     <<"+", "n", "a", "n">>,
     <<"i", "n", "f", "i">>,
     <<"0", "x", "1", "p", "4">>,
     <<"0", "X", "1", ".", "8", "p", "-", "1">>,
     <<"0", "x", "1">>,
     <<"1", "_", "0", "0", "0">>,
     <<"1", "_", "_", "0">>,
     <<"_", "1">>,
     <<"1", "e", "-", "3", "2", "4">>,
     <<"3", "e", "-", "3", "2", "4">>,
     <<"2", "4", "e", "-", "3", "2", "5">>,
     <<"1", "7", "9", "7", "6", "9", "4", "e", "3", "0", "2">>,
     <<"1", "7", "9", "7", "6", "9", "3", "e", "3", "0", "2">>,
     <<"2", "5", "e", "-", "3", "2", "4">>,
     <<"-", "2", "5", "e", "-", "3", "2", "4">>,
     <<"2", "4", "7", "1", "e", "-", "3", "2", "4">>,
     <<"1", "e", "2", "3">>}

RawStrings == Strings(RawChars, MaxRawLen) \cup SpecialRaws

AccessorInit ==
    /\ ServerInit
    /\ gauges = NotFollowed
    /\ arg \in RawStrings
    /\ ret = NotCalled

CallGet(fn, val) ==
    /\ ret.fn = "none"
    /\ ret' = Called(fn, val)
    /\ UNCHANGED <<schedVars, clientVars, routerVars, password, httpVars,
                   sigVars, cancelVars, closeVars, gauges, arg>>

CallGetVoltage == CallGet("GetVoltage", GetVoltage(arg))

CallGetPower == CallGet("GetPower", GetPower(arg))

CallGetEnergy == CallGet("GetEnergy", GetEnergy(arg))

CallGetCelsius == CallGet("GetCelsius", GetCelsius(arg))

AccessorNext == CallGetVoltage \/ CallGetPower \/ CallGetEnergy \/ CallGetCelsius

AccessorSpec == AccessorInit /\ [][AccessorNext]_vars

TypeOK ==
    /\ main \in {"run", "wait", "logout", "httpShutdown", "shutdownWait",
                 "return", "returned", "crashed"}
    /\ wg \in 0..WaitGroupSize
    /\ \A t \in Tasks : tickCh[t] \in 0..TickChanCap /\ inflight[t] \in 0..1

\* ------------------------------------------------- login called on its own
\* Client.login as a unit: it is entered with any cached session, against a
\* router in any state, by one caller that holds the mutex.
LoginInit ==
    /\ main = "wait"
    /\ wg = WaitGroupSize
    /\ ctxDone = FALSE
    /\ cancelInPoll = FALSE
    /\ pc = [t \in Tasks |-> IF t = "device" THEN "login" ELSE "select"]
    /\ tickCh = [t \in Tasks |-> 0]
    /\ feeder = [t \in Tasks |-> "waitTick"]
    /\ inflight = [t \in Tasks |-> IF t = "device" THEN 1 ELSE 0]
    /\ pollResult = [t \in Tasks |-> "none"]
    /\ mu = "device"
    /\ session \in [SID : {EmptySID, zeroSessionID} \cup Tokens,
                    Challenge : {NoChallenge} \cup Challenges]
    /\ req = [t \in Tasks |-> NoReq]
    /\ loginReqs = [t \in Tasks |-> 0]
    /\ loginResult = [t \in Tasks |-> IF t = "device" THEN "running" ELSE "none"]
    /\ nextSid \in 1..(MaxSessions + 1)
    /\ routerValid \in SUBSET (1..(nextSid - 1))
    /\ routerChallenge \in Challenges
    /\ password \in {RouterPassword, WrongPassword}
    /\ httpPc = "serving"
    /\ serverErr = FALSE
    /\ shutdownCalled = FALSE
    /\ shutdownErr = FALSE
    /\ runResult = "none"
    /\ sigPc = "select"
    /\ signals = 0
    /\ closeErr = "none"
    /\ logoutReq = EmptySID
    /\ gauges = NotFollowed
    /\ arg = NotFollowed
    /\ ret = NotFollowed

LoginNext ==
    \/ LoginSendChallenge("device")
    \/ LoginChallengeFail("device")
    \/ LoginChallengeReply("device")
    \/ LoginSubmitFail("device")
    \/ LoginSubmitReply("device")
    \/ RouterExpire

LoginSpec == LoginInit /\ [][LoginNext]_vars

\* ================================================================= claims

\* C1: as long as the cancellation signal has not fired, the ticker of each
\* loop keeps delivering ticks: its feeder goroutine is still running (it has
\* exited only if the context is done).
C1_TickerKeepsDelivering ==
    \A t \in Tasks : feeder[t] = "exited" => ctxDone

\* C2: within one metric family polls never overlap: at most one device poll
\* and at most one network poll is in flight in every reachable state.
C2_NoOverlapWithinFamily ==
    \A t \in Tasks : inflight[t] <= 1

\* C2 witness: a device poll and a network poll are in flight together.
C2_BothFamiliesInFlight ==
    inflight["device"] = 1 /\ inflight["network"] = 1

\* C3: every data request that is sent carries a sid that is neither empty
\* nor the all-zero sentinel.
C3_DataSidNeverEmptyOrZero ==
    \A t \in Tasks :
        req[t].ep = "data" => req[t].sid \notin {EmptySID, zeroSessionID}

\* The first request of a login call was answered in this step.
ChallengeAnswered(t) ==
    /\ pc[t] = "login1"
    /\ pc'[t] # "login1"
    /\ loginResult'[t] # "challengeErr"

\* C4: login's first request presents the cached token; a reply with the
\* all-zero sentinel is always followed by the response submission (response
\* and username); a reply with any other token ends login with success, that
\* token cached and no second request.
C4_LoginSteps ==
    [][\A t \in Tasks :
        /\ (pc[t] = "login" /\ pc'[t] # "login") =>
              /\ req'[t].ep = "login"
              /\ req'[t].sid = session.SID
              /\ loginReqs'[t] = 1
        /\ (ChallengeAnswered(t) /\ session'.SID = zeroSessionID) =>
              /\ pc'[t] = "login2"
              /\ req'[t].ep = "login"
              /\ req'[t].response = solveChallenge(session', password)
              /\ req'[t].username = Username
              /\ loginReqs'[t] = 2
        /\ (ChallengeAnswered(t) /\ session'.SID # zeroSessionID) =>
              /\ loginResult'[t] = "valid"
              /\ session'.SID = RouterCheckReply(req[t].sid).SID
              /\ loginReqs'[t] = 1
              /\ req'[t].ep = "data"
              /\ req'[t].sid = session'.SID
      ]_vars

\* C4 witness: login was entered with a token the router still accepts and
\* has returned success after its first request.
C4_StillValidReached ==
    /\ loginResult["device"] = "valid"
    /\ loginReqs["device"] = 1
    /\ session.SID \in Tokens
    /\ req["device"].ep = "data"

\* C5: a reply to the response submission that carries an empty token or the
\* all-zero sentinel makes login fail; the failure ends the caller's poll with
\* an error, nothing is retried and no data request is sent; a login call
\* sends at most two requests to the login endpoint.
\* The steps are those of the running process: a panic ends it.
C5_AuthErrorNotRetried ==
    /\ [](\A t \in Tasks : loginReqs[t] <= 2)
    /\ [][Alive' => \A t \in Tasks :
            (/\ pc[t] = "login2"
             /\ pc'[t] # "login2"
             /\ session'.SID \in {EmptySID, zeroSessionID}) =>
                /\ loginResult'[t] \in {"authErr", "submitErr"}
                /\ pollResult'[t] = "err"
                /\ pc'[t] = "select"
                /\ req'[t] = NoReq
                /\ loginReqs'[t] = 2
       ]_vars

\* C5 witness: a login call has ended with the authentication error after
\* its two requests.
C5_AuthErrorReached ==
    \E t \in Tasks :
        /\ loginResult[t] = "authErr"
        /\ loginReqs[t] = 2
        /\ pollResult[t] = "err"
        /\ session.SID = zeroSessionID

\* C6: at most one login handshake is in flight at any time, and while a task
\* is in the middle of a handshake no other task reads or writes the cached
\* session.
\* The steps are those of the running process: a panic ends it.
C6_HandshakeSerialized ==
    /\ [](/\ Cardinality({t \in Tasks : pc[t] \in LoginPcs}) <= 1
          /\ \A t \in Tasks : pc[t] \in LoginPcs => mu = t)
    /\ [][Alive' => \A t \in Tasks : pc[t] \in LoginPcs =>
            /\ session' # session => pc'[t] # pc[t]
            /\ \A u \in Tasks \ {t} :
                 ~(pc[u] = "getSession" /\ pc'[u] # "getSession")
            /\ main' = main
       ]_vars

\* C6 witness: one loop is in the middle of a handshake while the other one
\* is asking for the session.
C6_ConcurrentRequest ==
    pc["device"] = "login2" /\ pc["network"] = "getSession"

\* C7: once Run has gone on to the logout, both loops have stopped: no poll
\* is in flight and no request of a poll or of a handshake is outstanding.
C7_LogoutAfterPolling ==
    main \in {"logout", "httpShutdown", "shutdownWait", "return", "returned"} =>
        \A t \in Tasks :
            /\ pc[t] = "stopped"
            /\ inflight[t] = 0
            /\ req[t] = NoReq

\* C7 witness: the logout request is in flight after both families polled.
C7_LogoutInFlight ==
    /\ main = "logout"
    /\ logoutReq \in Tokens
    /\ \A t \in Tasks : pollResult[t] # "none"

\* C8: Run does not return before both loops have reported completion and
\* the logout attempt has finished, also when cancellation fired while a
\* poll was in flight.
C8_RunReturnsLast ==
    main = "returned" =>
        /\ \A t \in Tasks : pc[t] = "stopped"
        /\ wg = 0
        /\ closeErr # "none"
        /\ logoutReq = EmptySID

\* C8 witness: Run has returned from a run in which cancellation fired while
\* a poll was in flight.
C8_ReturnedAfterCancelInPoll ==
    main = "returned" /\ cancelInPoll /\ closeErr = "err"

\* C9: once the cancellation signal has fired, both loops eventually exit and
\* Run eventually returns, whether or not logout and HTTP shutdown succeed.
C9_ShutdownCompletes ==
    ctxDone ~> (main = "returned" /\ \A t \in Tasks : pc[t] = "stopped")

\* C10: whenever a termination signal has been delivered, the cancellation
\* signal fires: it has fired already, or the listener has taken the signal
\* and is about to call shutdown().
C10_SignalFiresCancellation ==
    signals > 0 => (ctxDone \/ sigPc = "gotSignal")

\* C11: once the cancellation signal has fired, no loop starts a new poll:
\* a loop at its select exits, also when a tick is pending in its channel.
C11_NoPollAfterCancel ==
    [][\A t \in Tasks :
         ctxDone => ~(pc[t] = "select" /\ pc'[t] = "getSession")]_vars

\* C12: a poll that ends in an error leaves its loop idle at the select,
\* neither stops it nor fires cancellation, and the loop performs the poll
\* for the next tick that is delivered.
C12_FailedPollKeepsLoop ==
    /\ [](\A t \in Tasks :
            (pollResult[t] = "err" /\ pc[t] = "select" /\ tickCh[t] > 0) =>
                ENABLED LoopTakeTick(t))
    /\ [][\A t \in Tasks :
            (pc[t] \in PollPcs /\ pc'[t] \notin PollPcs /\ pollResult'[t] = "err") =>
                /\ pc'[t] = "select"
                /\ ctxDone' = ctxDone
                /\ wg' = wg
                /\ main' = main
       ]_vars

\* C12 witness: a loop whose last poll failed is polling again, cancellation
\* not having fired.
C12_PollAfterFailedPoll ==
    \E t \in Tasks :
        /\ pollResult[t] = "err"
        /\ pc[t] \in PollPcs
        /\ ~ctxDone

\* The loops that have not stopped.
Running == {t \in Tasks : pc[t] # "stopped"}

\* C13: each loop goes from idle to polling and from polling back to idle,
\* and stops from there; a stopped loop stays stopped and never polls again;
\* each loop signals completion exactly once, so the wait-group counter is
\* the number of loops that have not stopped (2, 1, 0) and never negative.
\* The steps are those of the running process: a panic ends it.
C13_LoopStateMachine ==
    /\ [](main \notin {"run", "crashed"} =>
            (wg = Cardinality(Running) /\ wg >= 0))
    /\ [][Alive' => \A t \in Tasks :
            /\ pc[t] = "stopped" => (pc'[t] = "stopped" /\ inflight'[t] = 0)
            /\ (pc[t] = "select" /\ pc'[t] # "select") =>
                  pc'[t] \in {"getSession", "stopped"}
            /\ (pc[t] \in PollPcs /\ pc'[t] \notin PollPcs) => pc'[t] = "select"
            /\ (pc[t] # "stopped" /\ pc'[t] = "stopped") => wg' = wg - 1
            /\ pc'[t] = pc[t] => (wg' = wg \/ \E u \in Tasks \ {t} : pc'[u] # pc[u])
       ]_vars

\* C13 witness: both loops have polled and stopped, the counter is at zero.
C13_BothStopped ==
    /\ wg = 0
    /\ \A t \in Tasks : pc[t] = "stopped" /\ pollResult[t] # "none"

\* C14: each loop has a tick available at once: as long as it has not polled
\* yet, a loop at its select finds a tick in its channel, whatever its feeder
\* is doing, so its first poll can start without an interval having elapsed;
\* this first tick is delivered exactly once, every further tick comes from
\* the feeder after an interval.
\* The steps are those of the running process: a panic ends it.
C14_ImmediateFirstTick ==
    /\ [](\A t \in Tasks :
            (pc[t] = "select" /\ pollResult[t] = "none") =>
                /\ tickCh[t] = 1
                /\ ENABLED LoopTakeTick(t))
    /\ [][Alive' => \A t \in Tasks :
            /\ (pc[t] = "start" /\ pc'[t] # "start") => tickCh'[t] = 1
            /\ (tickCh'[t] > tickCh[t] /\ pc[t] # "start") =>
                  (feeder[t] = "sendTick" /\ tickCh'[t] = 1)
       ]_vars

\* C14 witness: the first poll of a loop is in flight although no interval
\* has elapsed (its feeder is still waiting for the first interval tick).
C14_FirstPollBeforeInterval ==
    \E t \in Tasks :
        /\ pc[t] = "getSession"
        /\ pollResult[t] = "none"
        /\ feeder[t] = "waitTick"
        /\ tickCh[t] = 0
        /\ ~ctxDone

\* C15: re-authentication on demand: a data call that finds a cached token
\* which the router has timed out runs the login check again (it enters
\* login) instead of sending its data request with the stale token.
C15_StaleTokenReauthenticates ==
    [][\A t \in Tasks :
         (/\ pc[t] = "getSession"
          /\ pc'[t] # "getSession"
          /\ session.SID \in Tokens
          /\ session.SID \notin routerValid) => pc'[t] = "login"]_vars

FailedHandshakes == {"challengeErr", "submitErr", "authErr"}

\* C16: after a failed handshake (transport error at either step, or
\* rejected credentials) that left no token in the cache, the next data call
\* runs the handshake again before it sends its data request.
C16_FailedHandshakeRetried ==
    [][\A t \in Tasks :
         (/\ pc[t] = "getSession"
          /\ pc'[t] # "getSession"
          /\ \E u \in Tasks : loginResult[u] \in FailedHandshakes
          /\ session.SID \notin Tokens) => pc'[t] = "login"]_vars

\* C17: logout is a no-op when no session is cached: a logout request is
\* sent to the router only for a real token, never for the empty token or
\* the all-zero sentinel a failed handshake leaves behind.
C17_LogoutOnlyWithSession ==
    main = "logout" => logoutReq \in Tokens

\* C18: logout clears the session: once Close has returned without error,
\* the client no longer holds a session token as its cached token.
C18_LogoutClearsSession ==
    (main \in {"httpShutdown", "shutdownWait", "return", "returned"}
        /\ closeErr = "nil") =>
        session.SID \notin Tokens

\* C19: a logout failure is never escalated: whether Close returned an error
\* or not, Run then shuts the HTTP server down, and its return value is the
\* HTTP server's error alone, the same as with a successful logout.
\* The steps are those of the running process: a panic ends it.
C19_LogoutFailureNotEscalated ==
    /\ [](main \in {"shutdownWait", "return", "returned"} =>
            (closeErr \in {"nil", "err"} /\ shutdownCalled))
    /\ [][Alive' =>
            /\ (main = "httpShutdown" /\ main' # "httpShutdown") =>
                  (main' = "shutdownWait" /\ shutdownCalled' /\ closeErr' = closeErr)
            /\ (main = "shutdownWait" /\ main' # "shutdownWait") =>
                  (main' = "return" /\ closeErr' = closeErr)
            /\ (main = "return" /\ main' # "return") =>
                  /\ main' = "returned"
                  /\ runResult' = (IF serverErr THEN "err" ELSE "nil")
            /\ main = "returned" => runResult' = runResult
         ]_vars

\* C19 witness: Run has returned nil although Close returned an error.
C19_ReturnedNilAfterFailedLogout ==
    /\ main = "returned"
    /\ closeErr = "err"
    /\ shutdownCalled
    /\ runResult = "nil"

\* C20: when graceful shutdown fails, the server is closed by force: after
\* Run has returned the server holds no open connection.
C20_NoOpenConnectionAfterRun ==
    main = "returned" => ~OpenConnections

\* C21: the shutdown logout is bounded by its own timeout: also when the
\* router never answers the logout request, Close returns and Run goes on to
\* shut the HTTP server down.
C21_LogoutBoundedByTimeout ==
    (main = "logout") ~>
        (main \in {"httpShutdown", "shutdownWait", "return", "returned", "crashed"})

\* C22: a poll whose fetch fails (session or transport error, a reply that
\* does not decode, an empty traffic array) returns the error and changes no
\* gauge: every published value is what it was before the call.
C22_FailedFetchPublishesNothing ==
    [][(/\ ret'.calls = ret.calls + 1
        /\ \/ arg'.fail
           \/ arg'.malformed
           \/ (arg'.fam = "network" /\ Len(arg'.elems) = 0))
       => (ret'.res = "err" /\ gauges' = gauges)]_vars

\* C22 witness: a fetch has failed after an earlier one had published values.
C22_FailedAfterPublished ==
    /\ ret.res = "err"
    /\ ret.calls = 2
    /\ gauges # NewGauges
    /\ \E n \in DeviceNames : gauges[<<"Temperature", n>>] # Unset

\* C23: for every snapshot that NetworkStats returns without error,
\* NetworkMetrics.FetchFrom completes normally and has set each of the eight
\* network gauges to 8 times the first bucket of its series.
C23_AllEightPublished ==
    (ret.fn = "network" /\ ret.statsErr = "nil") =>
        /\ ret.res = "nil"
        /\ \A n \in SeriesNames :
              gauges[<<"network", n>>] = Mul8(arg.elems[1].series[n][1])

\* Bit c of the bitmask string is set: the string is a decimal integer whose
\* binary digit number c is 1, that is, whose residue modulo 2^(c+1) is
\* 2^c or more.
BitIsSet(raw, c) ==
    /\ ~ParseInt(raw).err
    /\ LET v == ParseInt(raw).val
           low == DivSmall(v.mag, Shl1(c + 1)).r
           residue == IF v.s < 0 THEN (Shl1(c + 1) - low) % Shl1(c + 1) ELSE low
       IN  residue >= Shl1(c)

IsSet(gauge, name) == gauges[<<gauge, name>>] # Unset

\* C24: for every device record, collectDeviceMetrics sets is_connected
\* always, temperature iff the bitmask has bit 8, voltage, power and energy
\* (all three) iff it has bit 7, is_powered iff it has bit 9, and nothing
\* under another device's name or in the network gauges.
C24_CapabilitiesSelectGauges ==
    ret.fn = "collect" =>
        /\ gauges[<<"IsConnected", arg.Name>>] = FloatOf(arg.Present)
        /\ IsSet("Temperature", arg.Name) <=> BitIsSet(arg.CapabilitiesBitmap, 8)
        /\ \A g \in {"Voltage", "Power", "Energy"} :
              IsSet(g, arg.Name) <=> BitIsSet(arg.CapabilitiesBitmap, 7)
        /\ IsSet("IsPoweredOn", arg.Name) <=> BitIsSet(arg.CapabilitiesBitmap, 9)
        /\ \A key \in GaugeKeys : key[2] # arg.Name => gauges[key] = NewGauges[key]

\* C24 witness: a device with the temperature bit only has been collected.
C24_TemperatureOnlyCollected ==
    /\ ret.fn = "collect"
    /\ arg.CapabilitiesBitmap = <<"2", "5", "6">>
    /\ IsSet("Temperature", arg.Name)
    /\ ~IsSet("Power", arg.Name)
    /\ ~IsSet("IsPoweredOn", arg.Name)

\* The bitmask string is a readable integer: an optional sign and digits.
Readable(raw) ==
    /\ Len(raw) > 0
    /\ LET body == IF raw[1] \in {"+", "-"} THEN Tail(raw) ELSE raw
       IN  Len(body) > 0 /\ \A i \in 1..Len(body) : IsDigit(body[i])

\* C25: Has(cs) for a non-empty cs is true iff the bitmask is a readable
\* integer and every bit c of cs is set in it; it is false for every cs when
\* the bitmask is not a readable integer; it always gives a truth value.
C25_HasIsBitwiseAnd ==
    ret.fn = "Has" =>
        /\ ret.val \in BOOLEAN
        /\ ret.val <=> (/\ Readable(arg.CapabilitiesBitmap)
                        /\ \A c \in arg.cs : BitIsSet(arg.CapabilitiesBitmap, c))
        /\ ~Readable(arg.CapabilitiesBitmap) => ~ret.val

\* C25 witness: a device with two of its bits asked for, both set.
C25_TwoCapabilitiesHeld ==
    /\ ret.fn = "Has"
    /\ ret.val
    /\ arg.cs = {PowerSensor, StateSwitch}
    /\ arg.CapabilitiesBitmap = <<"6", "5", "0">>

\* C26: NetworkStats on an empty JSON array returns the "no monitoring data"
\* error and no snapshot, an error other than the one of a body that does
\* not parse; a nil snapshot never comes with a nil error: on success the
\* snapshot is there.
C26_SnapshotOrError ==
    ret.fn = "network" =>
        /\ (~arg.fail /\ ~arg.malformed /\ Len(arg.elems) = 0) =>
              (ret.statsErr = "nodata" /\ ret.statsNull)
        /\ (~arg.fail /\ arg.malformed) => ret.statsErr = "decode"
        /\ ret.statsErr = "nil" => ~ret.statsNull

Reports(msg) == \E i \in 1..Len(ret.val) : ret.val[i] = msg

\* C27: Validate returns an error iff a required field (listen address,
\* user name, password, base URL) is empty or a poll interval is zero, and
\* the error reports every rule that is violated.
C27_ValidateReportsEveryRule ==
    ret.fn = "Validate" =>
        /\ ret.val # <<>> <=>
              \/ arg.ListenAddr = "" \/ arg.Username = "" \/ arg.Password = ""
              \/ arg.BaseURL = ""
              \/ arg.DeviceMonitoringInterval = 0
              \/ arg.NetworkMonitoringInterval = 0
        /\ arg.ListenAddr = "" => Reports("missing listen_addr")
        /\ arg.Username = "" => Reports("missing fritzbox.username")
        /\ arg.Password = "" => Reports("missing fritzbox.password")
        /\ arg.BaseURL = "" => Reports("FRITZ!Box base URL cannot be empty")
        /\ arg.DeviceMonitoringInterval = 0 =>
              Reports("device_monitoring_interval cannot be zero")
        /\ arg.NetworkMonitoringInterval = 0 =>
              Reports("network_monitoring_interval cannot be zero")

\* C28: the response submitted in the second handshake step is
\* challenge + "-" + H(challenge + "-" + password), with H the MD5 of the
\* UTF-16LE encoding, and challenge the one the router returned in the first
\* step of the same login call.
C28_ResponseFromFreshChallenge ==
    [][\A t \in Tasks :
        (ChallengeAnswered(t) /\ pc'[t] = "login2") =>
            LET challenge == RouterCheckReply(req[t].sid).Challenge
            IN  /\ req'[t].response.challenge = challenge
                /\ req'[t].response.hash = toUTF16andMD5(<<challenge, "-", password>>)
                /\ req'[t].username = Username
      ]_vars

\* C28 witness: the response in flight answers the challenge the router
\* issued last, with the password of the account.
C28_ResponseInFlight ==
    /\ pc["device"] = "login2"
    /\ req["device"].response.challenge = routerChallenge
    /\ req["device"].response.hash = toUTF16andMD5(<<routerChallenge, "-", RouterPassword>>)

\* The power of ten each accessor divides by.
ScaleOf(fn) == IF fn = "GetEnergy" THEN 0 ELSE IF fn = "GetCelsius" THEN 1 ELSE 3

\* C29: the raw accessors never fail: GetPower and GetVoltage return the
\* parsed value divided by 1000, GetEnergy the parsed value, GetCelsius the
\* parsed value divided by 10, and each returns exactly 0 when parsing the
\* string as a number fails.
C29_AccessorsDegradeToZero ==
    ret.fn \in {"GetVoltage", "GetPower", "GetEnergy", "GetCelsius"} =>
        LET p == ParseFloat(arg)
        IN  /\ p.err => ret.val = Zero
            /\ ~p.err => ret.val = DivPow10(p.val, ScaleOf(ret.fn))

\* C30: ticks that fire while a poll is in flight do not accumulate: a tick
\* channel never holds more than one tick; a tick sent during a poll goes
\* into the empty channel and the feeder holds no second one; taking a tick
\* empties the channel, so that one poll at most follows the poll in flight
\* without a further interval.
C30_TicksCoalesced ==
    /\ [](\A t \in Tasks : tickCh[t] \in 0..1)
    /\ [][\A t \in Tasks :
            /\ (tickCh'[t] > tickCh[t] /\ pc[t] \in PollPcs) =>
                  /\ tickCh[t] = 0
                  /\ tickCh'[t] = 1
                  /\ feeder[t] = "sendTick"
                  /\ feeder'[t] # "sendTick"
            /\ (pc[t] = "select" /\ pc'[t] = "getSession") =>
                  (tickCh[t] = 1 /\ tickCh'[t] = 0)
       ]_vars

\* C30 witness: a tick has fired during the first poll of a loop and waits
\* in the channel while the poll is still in flight.
C30_TickPendingDuringPoll ==
    \E t \in Tasks :
        /\ pc[t] \in PollPcs
        /\ pollResult[t] = "none"
        /\ tickCh[t] = 1
        /\ feeder[t] = "exited"
        /\ ~ctxDone

\* Position of Run in its sequence of steps.
MainRank(m) ==
    CASE m = "run" -> 0 [] m = "wait" -> 1 [] m = "logout" -> 2
      [] m = "httpShutdown" -> 3 [] m = "shutdownWait" -> 4 [] m = "return" -> 5
      [] m = "returned" -> 6 [] m = "crashed" -> 7

\* C31: shutdown is idempotent: once cancellation has fired, a further call
\* of shutdown() changes nothing; each loop exits once, and the logout and
\* the HTTP server shutdown are each performed once, Run never going back.
\* The steps are those of the running process: a panic ends it.
C31_ShutdownIdempotent ==
    [][Alive' =>
         /\ ctxDone => (ctxDone' /\ cancelInPoll' = cancelInPoll)
         /\ \A t \in Tasks :
              /\ pc[t] = "stopped" => pc'[t] = "stopped"
              /\ (pc[t] # "stopped" /\ pc'[t] = "stopped") => wg' = wg - 1
         /\ MainRank(main') >= MainRank(main)
         /\ (main # "logout" /\ main' = "logout") => (main = "wait" /\ closeErr = "none")
         /\ closeErr # "none" => closeErr' = closeErr
         /\ shutdownCalled => shutdownCalled'
         /\ shutdownErr' # shutdownErr => (main = "shutdownWait" /\ main' = "return")
         /\ (~shutdownCalled /\ shutdownCalled') =>
              (main = "httpShutdown" /\ main' = "shutdownWait")
      ]_vars

\* C31 witness: Run has returned after shutdown() was called twice: the HTTP
\* server ended with the orderly server-closed error, so cancellation had
\* been fired by the signal listener, and the HTTP goroutine then called
\* shutdown() again.
C31_CancelledTwice ==
    /\ main = "returned"
    /\ httpPc = "done"
    /\ ~serverErr
    /\ signals > 0
    /\ \A t \in Tasks : pc[t] = "stopped"

\* --------------------------------- the cached Session across handshake steps
\* The whole Session struct: arg is c.session, ret the reply decoded last.
MaxRights == 2

ZeroPermissions == [Names |-> <<>>, AccessLevels |-> <<>>]

ZeroSession ==
    [Challenge |-> NoChallenge, SID |-> EmptySID, BlockTime |-> "",
     Rights |-> ZeroPermissions]

\* The <Rights> elements a reply carries: none, or one Name/Access pair.
RightsSamples ==
    {ZeroPermissions,
     [Names |-> <<"HomeAuto">>, AccessLevels |-> <<"2">>],
     [Names |-> <<"Dial">>, AccessLevels |-> <<"1">>]}

FullReplies ==
    [Challenge : 1..NumChallenges, SID : {zeroSessionID, 1},
     BlockTime : {"0", "16"}, Rights : RightsSamples]

\* A reply document carries any subset of the four elements.
SessionReplies ==
    {[f \in D |-> full[f]] : full \in FullReplies, D \in SUBSET DOMAIN ZeroSession}

SessionInit ==
    /\ ServerInit
    /\ gauges = NotFollowed
    /\ arg = ZeroSession
    /\ ret = NotCalled

\* One successful getXML(&c.session, "/login_sid.lua", ...) of login.
GetXMLSession ==
    \E reply \in SessionReplies :
        /\ Len(DecodeSession(arg, reply).Rights.Names) <= MaxRights
        /\ arg' = DecodeSession(arg, reply)
        /\ ret' = Called("getXML", reply)
        /\ UNCHANGED <<schedVars, clientVars, routerVars, password, httpVars,
                       sigVars, cancelVars, closeVars, gauges>>

SessionSpec == SessionInit /\ [][GetXMLSession]_vars

\* C32: the cached Session is replaced, never merged: after each successful
\* handshake step its challenge, token, block time and permissions are
\* exactly what the latest reply carries, decoded into an empty Session.
C32_SessionReplaced ==
    ret.fn = "getXML" => arg = DecodeSession(ZeroSession, ret.val)

\* C33: a data call obtains the session token before it sends its data
\* request: a failed login ends the call with an error (the poll reports an
\* error, so FetchFrom publishes nothing) and without a data request, and a
\* data request that follows a login carries the token the login obtained.
C33_TokenBeforeDataRequest ==
    [][\A t \in Tasks :
         /\ (pc[t] \in LoginPcs /\ loginResult'[t] \in FailedHandshakes) =>
                /\ req'[t] = NoReq
                /\ pc'[t] = "select"
                /\ pollResult'[t] = "err"
         /\ (req[t].ep # "data" /\ req'[t].ep = "data") =>
                \/ /\ pc[t] = "getSession"
                   /\ ~NeedsLogin(session.SID)
                   /\ req'[t].sid = session.SID
                \/ /\ pc[t] \in LoginPcs
                   /\ loginResult'[t] \notin FailedHandshakes
                   /\ req'[t].sid = session'.SID
                   /\ req'[t].sid \in Tokens
      ]_vars

\* C33 witness: a poll has ended with the error of a failed login and has
\* no request at the data endpoint, while the other loop goes on.
C33_LoginFailedNoDataRequest ==
    \E t \in Tasks :
        /\ loginResult[t] \in FailedHandshakes
        /\ pollResult[t] = "err"
        /\ pc[t] = "select"
        /\ req[t] = NoReq
        /\ mu = Free
        /\ \A u \in Tasks : req[u].ep # "data"

\* C34: no task leaks: once the cancellation signal has fired, both ticker
\* feeders, the signal listener and the HTTP serving goroutine eventually
\* terminate; none stays blocked for ever.  A panic ends the process and
\* every goroutine with it, which is not counted as a leak.
C34_NoTaskLeaks ==
    ctxDone ~> (\/ /\ \A t \in Tasks : feeder[t] = "exited"
                   /\ sigPc = "done"
                   /\ httpPc = "done"
                \/ ~Alive)

\* ListenAndServe has returned an error other than http.ErrServerClosed.
ServerFailed == httpPc = "failed" \/ serverErr

\* C35: Run's result reflects why the server stopped, under every
\* interleaving: once Run has returned, its result is an error exactly if
\* the HTTP server ended with an error other than the orderly closed one.
C35_ResultReflectsServerError ==
    main = "returned" => (runResult = "err" <=> ServerFailed)

\* C36: every configuration Validate accepts has both poll intervals
\* strictly positive, so that neither loop's time.NewTicker can panic.
C36_AcceptedIntervalsPositive ==
    (ret.fn = "Validate" /\ ret.val = <<>>) =>
        /\ ~NewTickerPanics(arg.DeviceMonitoringInterval)
        /\ ~NewTickerPanics(arg.NetworkMonitoringInterval)

\* ------------------------------------------------- get and the base URL
\* A path is the sequence of its slashes and names: "/api/x" is
\* <<"/", "api", "/", "x">>, the empty string is <<>>.
Rooted(p) == p # <<>> /\ p[1] = "/"

IsName(x) == x # "/"

Segs(p) == SelectSeq(p, IsName)

\* path.Clean: "." is dropped, ".." removes the name before it, and ".."
\* at the root is dropped.
RECURSIVE Resolve(_, _, _)
Resolve(segs, out, rooted) ==
    IF segs = <<>> THEN out
    ELSE LET x == Head(segs)
             n == Len(out)
         IN  IF x = "." THEN Resolve(Tail(segs), out, rooted)
             ELSE IF x = ".."
                  THEN IF n > 0 /\ out[n] # ".."
                       THEN Resolve(Tail(segs), SubSeq(out, 1, n - 1), rooted)
                       ELSE IF rooted THEN Resolve(Tail(segs), out, rooted)
                       ELSE Resolve(Tail(segs), Append(out, x), rooted)
                  ELSE Resolve(Tail(segs), Append(out, x), rooted)

RECURSIVE Slashed(_)
Slashed(segs) ==
    IF Len(segs) <= 1 THEN segs
    ELSE <<Head(segs), "/">> \o Slashed(Tail(segs))

Clean(p) ==
    LET segs == Resolve(Segs(p), <<>>, Rooted(p))
    IN  IF segs = <<>> THEN (IF Rooted(p) THEN <<"/">> ELSE <<".">>)
        ELSE (IF Rooted(p) THEN <<"/">> ELSE <<>>) \o Slashed(segs)

\* path.Join(a, b): empty elements are ignored, the rest is joined with a
\* slash and cleaned; all elements empty gives the empty string.
Join(a, b) ==
    IF a = <<>> /\ b = <<>> THEN <<>>
    ELSE IF a = <<>> THEN Clean(b)
    ELSE IF b = <<>> THEN Clean(a)
    ELSE Clean(a \o <<"/">> \o b)

\* a < b for two strings.
RECURSIVE StrLess(_, _)
StrLess(a, b) ==
    IF b = <<>> THEN FALSE
    ELSE IF a = <<>> THEN TRUE
    ELSE IF Head(a) # Head(b) THEN ByteOf(Head(a)) < ByteOf(Head(b))
    ELSE StrLess(Tail(a), Tail(b))

UpperHex ==
    <<"0", "1", "2", "3", "4", "5", "6", "7", "8", "9", "A", "B", "C", "D", "E", "F">>

\* The bytes for which shouldEscape(c, encodeQueryComponent) is false:
\* letters, digits and - _ . ~
UnreservedBytes ==
    {Bytes[i] : i \in (ByteOf("0")..ByteOf("9")) \cup (ByteOf("A")..ByteOf("Z"))
                        \cup (ByteOf("a")..ByteOf("z"))}
        \cup {"-", "_", ".", "~"}

Unreserved(c) == c \in UnreservedBytes

\* url.QueryEscape: a space becomes a plus, letters, digits and - _ . ~
\* stay, every other byte becomes % and its code in two upper-case
\* hexadecimal digits.
EscapeChar(c) ==
    LET code == ByteOf(c) - 1
    IN  IF c = " " THEN <<"+">>
        ELSE IF Unreserved(c) THEN <<c>>
        ELSE <<"%", UpperHex[(code \div 16) + 1], UpperHex[(code % 16) + 1]>>

RECURSIVE QueryEscape(_)
QueryEscape(str) ==
    IF str = <<>> THEN <<>> ELSE EscapeChar(Head(str)) \o QueryEscape(Tail(str))

\* params.Add(key, val) for each pair of arguments, in their order.
PairsOf(args) == [i \in 1..(Len(args) \div 2) |-> <<args[2 * i - 1], args[2 * i]>>]

KeysOf(pairs) == {pairs[i][1] : i \in 1..Len(pairs)}

\* The keys in ascending order.
RECURSIVE SortedKeys(_)
SortedKeys(keys) ==
    IF keys = {} THEN <<>>
    ELSE LET first == CHOOSE k \in keys : \A other \in keys \ {k} : StrLess(k, other)
         IN  <<first>> \o SortedKeys(keys \ {first})

\* key=value&key=value for the pairs in the given order.
RECURSIVE WritePairs(_)
WritePairs(pairs) ==
    IF pairs = <<>> THEN <<>>
    ELSE LET pr == Head(pairs)
             one == QueryEscape(pr[1]) \o <<"=">> \o QueryEscape(pr[2])
         IN  IF Len(pairs) = 1 THEN one
             ELSE one \o <<"&">> \o WritePairs(Tail(pairs))

\* The pairs ordered by key, the values of one key in the order they were
\* added.
RECURSIVE ByKey(_, _)
ByKey(pairs, keys) ==
    IF keys = <<>> THEN <<>>
    ELSE LET HasKey(pr) == pr[1] = Head(keys)
         IN  SelectSeq(pairs, HasKey) \o ByKey(pairs, Tail(keys))

\* url.Values.Encode
Encode(pairs) == WritePairs(ByKey(pairs, SortedKeys(KeysOf(pairs))))

NoURL == [Host |-> "", Path |-> <<>>, RawQuery |-> <<>>]

\* Client.get up to c.http.Do: the error of the argument check, or the URL
\* of the request.  reqURL := c.BaseURL copies the struct; the two
\* assignments go to the copy.
getThroughPointer(c, reqPath, args) ==
    IF Len(args) % 2 # 0
    THEN [c |-> c, url |-> NoURL, err |-> "bad number of query arguments (must be a factor of 2)"]
    ELSE LET params == PairsOf(args)
             reqURL == [c.BaseURL EXCEPT
                          !.Path = Join(c.BaseURL.Path, reqPath),
                          !.RawQuery = Encode(params)]
         IN  [c |-> [c EXCEPT !.BaseURL = reqURL], url |-> reqURL, err |-> "nil"]

get(c, reqPath, args) ==
    IF Len(args) % 2 # 0
    THEN [c |-> c, url |-> NoURL, err |-> "bad number of query arguments (must be a factor of 2)"]
    ELSE LET params == PairsOf(args)
             reqURL == [c.BaseURL EXCEPT
                          !.Path = Join(c.BaseURL.Path, reqPath),
                          !.RawQuery = Encode(params)]
         IN  [c |-> c, url |-> reqURL, err |-> "nil"]

\* What http.NewRequest, c.http.Do and the reading of the response come to.
HttpOutcomes == {"nil", "failed to build HTTP request", "HTTP request failed",
                 "bad HTTP status code", "failed to read HTTP response body"}

BasePaths ==
    {<<>>, <<"/", "api">>, <<"/", "api", "/">>, <<"/", "a", "/", "..", "/", "b">>}

BaseURLs ==
    [Host : {"fritz.box"}, Path : BasePaths,
     RawQuery : {<<>>, <<"s", "i", "d", "=", "0">>}]

ReqPaths ==
    {<<"/", "login_sid.lua">>,
     <<"/", "webservices", "/", "homeautoswitch.lua">>,
     <<"/", "internet", "/", "inetstat_monitor.lua">>}

\* The argument lists the client passes (login, logout, doCommand,
\* NetworkStats), and others: a key twice, keys out of order, characters
\* that are escaped, an odd number of arguments.
ArgLists ==
    {<<>>,
     <<<<"s", "i", "d">>>>,
     <<<<"s", "i", "d">>, <<"1">>, <<"l", "o", "g", "o", "u", "t">>, <<"t", "r", "u", "e">>>>,
     <<<<"s", "w", "i", "t", "c", "h", "c", "m", "d">>, <<"g", "e", "t", "d", "e", "v", "i", "c", "e", "l", "i", "s", "t", "i", "n", "f", "o", "s">>, <<"s", "i", "d">>, <<"1">>>>,
     <<<<"r", "e", "s", "p", "o", "n", "s", "e">>, <<"1", "-", "a", "b">>, <<"u", "s", "e", "r", "n", "a", "m", "e">>, <<"a", " ", "b", "&", "c">>>>,
     <<<<"s", "i", "d">>, <<"1">>, <<"m", "y", "X", "h", "r">>, <<"1">>, <<"x", "h", "r">>, <<"1">>, <<"u", "s", "e", "a", "j", "a", "x">>, <<"1">>, <<"a", "c", "t", "i", "o", "n">>, <<"g", "e", "t", "_", "g", "r", "a", "p", "h", "i", "c">>>>,
     <<<<"b">>, <<"1">>, <<"a">>, <<"2">>, <<"b">>, <<"0">>>>,
     <<<<"S", "i", "d">>, <<"1">>, <<"s", "i", "d">>, <<"2">>>>,
     <<<<"u", "s", "e", "r", "n", "a", "m", "e">>, <<"u", "s", "e", "r", "@", "e", "x", "a", "m", "p", "l", "e", ".", "c", "o", "m">>>>,
     <<<<"u", "s", "e", "r", "n", "a", "m", "e">>, <<"a", "+", "b">>, <<"x">>, <<"5", "0", "%">>>>,
     <<<<"k", ":", "?">>, <<"#", "!", "*", ",", ";", "$", "'", "(", ")", "[", "]">>, <<"k", "+">>, <<"<C3>", "<BC>", "\"", "\\", "<0A>">>>>}

GetInit ==
    /\ ServerInit
    /\ gauges = NotFollowed
    /\ arg \in [BaseURL : BaseURLs]
    /\ ret = NotCalled

\* One call of c.get(reqPath, args...) on the client arg.
ClientGet ==
    /\ \E reqPath \in ReqPaths, args \in ArgLists :
         LET r == get(arg, reqPath, args)
             call == [reqPath |-> reqPath, args |-> args,
                      url |-> r.url, err |-> r.err]
         IN  /\ arg' = r.c
             /\ IF r.err = "nil"
                THEN \E outcome \in HttpOutcomes :
                        ret' = Called("get", [call EXCEPT !.err = outcome])
                ELSE ret' = Called("get", call)
    /\ UNCHANGED <<schedVars, clientVars, routerVars, password, httpVars,
                   sigVars, cancelVars, closeVars, gauges>>

GetSpec == GetInit /\ [][ClientGet]_vars

\* C37: get builds the request URL on a copy of the base URL: no call of
\* get, successful or failed, changes the client's BaseURL (path and
\* query), and the path of a request is the base path joined with the
\* endpoint path of that request alone.
C37_BaseURLUntouched ==
    [][/\ arg'.BaseURL = arg.BaseURL
       /\ ret'.val.url # NoURL =>
            /\ ret'.val.url.Path =
                  Clean(Clean(arg.BaseURL.Path \o <<"/">>) \o ret'.val.reqPath)
            /\ ret'.val.url.Host = arg.BaseURL.Host
      ]_vars

\* C37 witness: a call that built its request and then failed with a bad
\* status, on a client whose base URL has a path and a query of its own.
C37_RequestBuiltOnCopy ==
    /\ ret.fn = "get"
    /\ ret.val.err = "bad HTTP status code"
    /\ arg.BaseURL.Path = <<"/", "api", "/">>
    /\ arg.BaseURL.RawQuery # <<>>
    /\ ret.val.url.Path = <<"/", "api", "/", "login_sid.lua">>
    /\ ret.val.url.RawQuery = <<"l", "o", "g", "o", "u", "t", "=", "t", "r", "u", "e", "&", "s", "i", "d", "=", "1">>

====
